---- MODULE Spec2Model ----
(***************************************************************************)
(* RedactAI: the redaction pipeline of src/src/server.py and src/src/tools *)
(* as a state machine.                                                     *)
(*                                                                         *)
(* A Python str is a sequence of one-character strings, so that len(),     *)
(* lower() and substring search are computed and not assumed.  A Python    *)
(* dict is a sequence of [k, v] entries in insertion order, which is the   *)
(* order .items() iterates in.  None is the value PyNone.                  *)
(***************************************************************************)
EXTENDS Integers, Sequences, FiniteSets, TLC

VARIABLES
    tool,               \* the tool operation that was invoked
    pc,                 \* position of the running operation
    pdf_path,           \* tool argument, reassigned to the temporary input file
    pdf_base64,         \* tool argument: "none", "valid" or "invalid" base64 text
    return_base64,      \* tool argument
    temp_file,          \* the temporary input file the tool has to clean up
    response,           \* the JSON response the tool returned
    sensitive_data,     \* the CategoryMap held by the tool (server.py:513, 734)
    sensitive_values,   \* the literal list held by the tool (server.py:537, 749)
    values_in,          \* history: the literal list before the last override step
    exclude_items,      \* redact_pdf_custom argument
    include_items,      \* redact_pdf_custom argument
    files,              \* the file system: path -> stored document
    rpc,                \* position inside apply_redactions
    r_args,             \* apply_redactions arguments: pdf_path, sensitive_values
    doc_redacted,       \* the removal copy (pdf_redactor.py:21)
    doc_highlighted,    \* the preview copy (pdf_redactor.py:22)
    page_num,           \* index of the page the loop is on
    value_idx,          \* index of the next literal on that page
    page_stats,         \* number_of_redactions of the page the loop is on
    redaction_summary,  \* pdf_redactor.py:24
    registered,         \* history: regions passed to add_redact_annot, per page
    out_paths,          \* redacted_path, highlighted_path
    search_log,         \* history: the searches and commits, in the order made
    dpc,                \* position inside get_sensitive_data
    http,               \* the outcome of the inference request
    det,                \* what get_sensitive_data returned or raised
    masked_data,        \* the masked mapping of the report (server.py:385, 565, 790)
    llm_cache,          \* server.py:45: cache key -> detector client
    llm_instance,       \* the client the last get_llm call returned
    llm_calls,          \* history: the get_llm calls, their arguments and results
    extractor,          \* pdf_extractor.get_pdf_text: its position, document and locals
    steps,              \* tracker.steps of the running tool (server.py:52)
    summary,            \* the counts of the get_summary() call put into the response
    trail               \* history: the checks and calls of the tool, in order

normVars == <<sensitive_data, sensitive_values, values_in, exclude_items, include_items>>

engineState ==
    <<rpc, r_args, doc_redacted, doc_highlighted, page_num, value_idx,
      page_stats, redaction_summary, registered, out_paths, search_log>>

engineVars == <<files, engineState>>

detVars == <<dpc, http, det>>

toolVars == <<tool, pc, pdf_path, pdf_base64, return_base64, temp_file, response>>

sideVars == <<masked_data, llm_cache, llm_instance, llm_calls, extractor, steps, summary, trail>>

vars == <<toolVars, normVars, engineVars, detVars, sideVars>>

-----------------------------------------------------------------------------
(* Python values *)

PyNone == <<"None">>

Truthy(v) == v # <<>> /\ v # PyNone

IsList(v) == v # PyNone

InSeq(x, s) == \E i \in 1..Len(s) : s[i] = x

SeqToSet(s) == {s[i] : i \in 1..Len(s)}

\* the sequences over S of length at most n
BoundedSeq(S, n) == UNION {[1..k -> S] : k \in 0..n}

LowerChar(c) ==
    CASE c = "J" -> "j"
      [] c = "O" -> "o"
      [] c = "A" -> "a"
      [] c = "L" -> "l"
      [] OTHER -> c

\* str.lower()
Lower(s) == [i \in 1..Len(s) |-> LowerChar(s[i])]

\* no detector client
NoInstance == [model |-> <<>>, base_url |-> <<>>, id |-> 0]

\* the strings the inputs are drawn from
sJo == <<"J", "o">>
sjo == <<"j", "o">>
sJO == <<"J", "O">>
sAl == <<"A", "l">>
sJ == <<"J">>
sJoAl == <<"J", "o", "A", "l">>
sEmpty == <<>>

-----------------------------------------------------------------------------
(* CategoryMap *)

required_keys ==
    <<"names", "emails", "phones", "addresses", "ids",
      "cards", "dobs", "medical", "financial", "other_pii">>

Entry(key, value) == [k |-> key, v |-> value]

DictKeys(d) == {d[i].k : i \in 1..Len(d)}

DictHas(d, key) == \E i \in 1..Len(d) : d[i].k = key

\* dict.get(key, default)
DictGet(d, key, default) ==
    IF DictHas(d, key)
    THEN d[CHOOSE i \in 1..Len(d) : d[i].k = key].v
    ELSE default

_empty_structure == [i \in 1..Len(required_keys) |-> Entry(required_keys[i], <<>>)]

-----------------------------------------------------------------------------
(* Parsed JSON / Python values, tagged with their type *)

\* every value carries every field, so that any two values can be compared
Blank == [t |-> "null", s |-> <<>>, n |-> 0, b |-> FALSE,
          items |-> <<>>, entries |-> <<>>, segs |-> <<>>]

PStr(s) == [Blank EXCEPT !.t = "str", !.s = s]
PInt(n) == [Blank EXCEPT !.t = "int", !.n = n]
PBool(b) == [Blank EXCEPT !.t = "bool", !.b = b]
PNull == Blank
PList(items) == [Blank EXCEPT !.t = "list", !.items = items]
PDict(entries) == [Blank EXCEPT !.t = "dict", !.entries = entries]
\* a str that is parsed rather than compared: a sequence of segments
PText(segs) == [Blank EXCEPT !.t = "text", !.segs = segs]

\* bool(item)
PyTruthy(item) ==
    CASE item.t = "str" -> item.s # <<>>
      [] item.t = "int" -> item.n # 0
      [] item.t = "bool" -> item.b
      [] item.t = "null" -> FALSE
      [] item.t = "list" -> item.items # <<>>
      [] item.t = "dict" -> item.entries # <<>>
      [] item.t = "text" -> item.segs # <<>>

Digit(d) == <<"0", "1", "2", "3", "4", "5", "6", "7", "8", "9">>[d + 1]

RECURSIVE NatStr(_)
NatStr(n) == IF n < 10 THEN <<Digit(n)>> ELSE Append(NatStr(n \div 10), Digit(n % 10))

\* str(item) for the types the validator lets through
PyStr(item) ==
    CASE item.t = "str" -> item.s
      [] item.t = "int" -> IF item.n < 0 THEN <<"-">> \o NatStr(0 - item.n) ELSE NatStr(item.n)
      [] item.t = "bool" -> IF item.b THEN <<"T", "r", "u", "e">> ELSE <<"F", "a", "l", "s", "e">>

\* isinstance(item, (str, int, float)); bool is a subclass of int
IsPrimitive(item) == item.t \in {"str", "int", "bool"}

-----------------------------------------------------------------------------
(* Sensitive-Span Detector: ollama_llm.OllamaLLM *)

Ok(v) == [exc |-> "none", val |-> v]

Raise(e) == [exc |-> e, val |-> <<>>]

\* ollama_llm.py:209
KeepItem(item) == PyTruthy(item) /\ IsPrimitive(item)

\* ollama_llm.py:199-209: the validated sequence of one key
ValidatedValue(value) ==
    IF value.t # "list"
    THEN IF value.t = "str"
         THEN (IF value.s # <<>> THEN <<value.s>> ELSE <<>>)
         ELSE <<>>
    ELSE LET kept == SelectSeq(value.items, KeepItem)
         IN  [i \in 1..Len(kept) |-> PyStr(kept[i])]

\* mutant: the entries of the parsed object are copied, unknown keys included
ValidateKeepingUnknownKeys(data) ==
    LET unknown == SelectSeq(data, LAMBDA e : ~InSeq(e.k, required_keys)) IN
    [i \in 1..Len(required_keys) |->
        Entry(required_keys[i], ValidatedValue(DictGet(data, required_keys[i], PList(<<>>))))]
    \o [i \in 1..Len(unknown) |-> Entry(unknown[i].k, ValidatedValue(unknown[i].v))]

\* ollama_llm.py:188-211
_validate_structure(data) ==
    [i \in 1..Len(required_keys) |->
        Entry(required_keys[i], ValidatedValue(DictGet(data, required_keys[i], PList(<<>>))))]

(* A response text is a sequence of segments: white space, prose without     *)
(* braces or back-ticks, a ``` fence, a JSON array without braces, or a      *)
(* brace-delimited span.  A span carries the defects that keep json.loads    *)
(* from accepting it and the object it denotes once it has none.             *)
SegWs == [k |-> "ws", defects |-> {}, val |-> <<>>]
SegProse == [k |-> "prose", defects |-> {}, val |-> <<>>]
SegFence == [k |-> "fence", defects |-> {}, val |-> <<>>]
SegArr == [k |-> "arr", defects |-> {}, val |-> <<>>]
SegObj(defects, val) == [k |-> "obj", defects |-> defects, val |-> val]

\* two objects a model may answer with
dictNames == <<Entry("names", PList(<<PStr(sJo)>>))>>
dictEmails == <<Entry("emails", PList(<<PStr(sAl)>>)), Entry("bogus", PStr(sJ))>>

RECURSIVE LStrip(_)
LStrip(segs) ==
    IF segs # <<>> /\ Head(segs).k = "ws" THEN LStrip(Tail(segs)) ELSE segs

RECURSIVE RStrip(_)
RStrip(segs) ==
    IF segs # <<>> /\ segs[Len(segs)].k = "ws"
    THEN RStrip(SubSeq(segs, 1, Len(segs) - 1))
    ELSE segs

\* str.strip()
Strip(segs) == RStrip(LStrip(segs))

\* json.loads: one well-formed JSON value, white space around it allowed
JsonLoads(segs) ==
    LET s == Strip(segs) IN
    IF Len(s) = 1 /\ s[1].k = "obj" /\ s[1].defects = {} THEN Ok(PDict(s[1].val))
    ELSE IF Len(s) = 1 /\ s[1].k = "arr" THEN Ok(PList(<<>>))
    ELSE Raise("JSONDecodeError")

\* index of the first non-white-space segment after position i, or Len + 1
RECURSIVE SkipWs(_, _)
SkipWs(segs, i) ==
    IF i + 1 <= Len(segs) /\ segs[i + 1].k = "ws" THEN SkipWs(segs, i + 1) ELSE i + 1

IsFenceAt(segs, i) == i <= Len(segs) /\ segs[i].k = "fence"

IsObjAt(segs, i) == i <= Len(segs) /\ segs[i].k = "obj"

\* the brace spans that can end group(1) of a block opened before position j:
\* a closing brace followed by optional white space and a fence
BlockEnds(segs, j) ==
    {m \in j..Len(segs) : IsObjAt(segs, m) /\ IsFenceAt(segs, SkipWs(segs, m))}

\* the fences a code block can start at: ```, optional white space, a brace
BlockStarts(segs) ==
    {i \in 1..Len(segs) :
        /\ IsFenceAt(segs, i)
        /\ IsObjAt(segs, SkipWs(segs, i))
        /\ BlockEnds(segs, SkipWs(segs, i)) # {}}

Min(S) == CHOOSE x \in S : \A y \in S : x <= y

\* re.search(r'```(?:json)?\s*(\{.*?\})\s*```', text, re.DOTALL): group(1) of
\* the leftmost match, the lazy .*? taking the nearest end; <<>> for no match
CodeBlockMatch(segs) ==
    IF BlockStarts(segs) = {} THEN <<>>
    ELSE LET j == SkipWs(segs, Min(BlockStarts(segs)))
         IN  SubSeq(segs, j, Min(BlockEnds(segs, j)))

\* re.search(r'\{[^{}]*(?:\{[^{}]*\}[^{}]*)*\}', text): the leftmost brace span
BraceMatch(segs) ==
    LET objs == {i \in 1..Len(segs) : segs[i].k = "obj"} IN
    IF objs = {} THEN <<>> ELSE <<segs[Min(objs)]>>

Max(S) == CHOOSE x \in S : \A y \in S : y <= x

\* ollama_llm.py:168-186: trailing commas removed, single quotes around keys and
\* values turned into double quotes, the text cut to first '{' .. last '}'
_fix_json_formatting(json_str) ==
    LET fixed == [i \in 1..Len(json_str) |->
                    [json_str[i] EXCEPT !.defects = @ \ {"trailing_comma", "single_quotes"}]]
        objs == {i \in 1..Len(fixed) : fixed[i].k = "obj"}
    IN  IF objs = {} THEN fixed ELSE SubSeq(fixed, Min(objs), Max(objs))

\* ollama_llm.py:134-146: the text the repair and the second parse work on
ExtractJsonStr(segs) ==
    IF CodeBlockMatch(segs) # <<>> THEN CodeBlockMatch(segs) ELSE BraceMatch(segs)

\* ollama_llm.py:126-158, the body of the try
ExtractBody(response_text) ==
    IF response_text.t # "text" THEN Raise("AttributeError")
    ELSE LET segs == response_text.segs
             direct == JsonLoads(Strip(segs))
         IN  IF direct.exc = "none" /\ direct.val.t = "dict"
             THEN Ok(_validate_structure(direct.val.entries))
             ELSE IF ExtractJsonStr(segs) = <<>> THEN Ok(_empty_structure)
             ELSE LET data == JsonLoads(_fix_json_formatting(ExtractJsonStr(segs)))
                  IN  IF data.exc # "none" THEN data
                      ELSE IF data.val.t = "dict" THEN Ok(_validate_structure(data.val.entries))
                      ELSE Ok(_empty_structure)

\* the except clauses of _extract_and_fix_json (ollama_llm.py:160-166):
\* json.JSONDecodeError, then Exception
ExtractCatches(exc) == TRUE

_extract_and_fix_json(response_text) ==
    LET r == ExtractBody(response_text) IN
    IF r.exc # "none" /\ ExtractCatches(r.exc) THEN Ok(_empty_structure) ELSE r

\* the outcome of requests.post and of response.json()
HttpTimeout == [kind |-> "timeout", status |-> 0, json_ok |-> FALSE, body |-> PNull]
HttpConnError == [kind |-> "connection_error", status |-> 0, json_ok |-> FALSE, body |-> PNull]
HttpStatus(code) == [kind |-> "response", status |-> code, json_ok |-> FALSE, body |-> PNull]
HttpNotJson == [kind |-> "response", status |-> 200, json_ok |-> FALSE, body |-> PNull]
HttpJson(body) == [kind |-> "response", status |-> 200, json_ok |-> TRUE, body |-> body]

\* ollama_llm.py:85-105, the body of the try
GetSensitiveDataBody(o) ==
    IF o.kind = "timeout" THEN Raise("Timeout")
    ELSE IF o.kind = "connection_error" THEN Raise("ConnectionError")
    ELSE IF o.status # 200 THEN Ok(_empty_structure)
    ELSE IF ~o.json_ok THEN Raise("JSONDecodeError")
    ELSE IF o.body.t # "dict" THEN Raise("AttributeError")
    ELSE LET response_text == DictGet(o.body.entries, "response", PText(<<>>)) IN
         IF response_text.t = "dict" THEN Ok(_validate_structure(response_text.entries))
         ELSE _extract_and_fix_json(response_text)

\* mutant: the final "except Exception" clause is missing
DetectCatchesRequestErrorsOnly(exc) == exc \in {"Timeout", "ConnectionError", "JSONDecodeError"}

\* the except clauses of get_sensitive_data (ollama_llm.py:107-117):
\* Timeout, RequestException, then Exception
DetectCatches(exc) == TRUE

get_sensitive_data(o) ==
    LET r == GetSensitiveDataBody(o) IN
    IF r.exc # "none" /\ DetectCatches(r.exc) THEN Ok(_empty_structure) ELSE r

DetectIdle ==
    /\ dpc = "idle"
    /\ http = HttpTimeout
    /\ det = Ok(_empty_structure)

-----------------------------------------------------------------------------
(* Value Normalizer: data_processor.post_process_sensitive_data *)

\* for category, values in sensitive_data.items(): all_values.extend(values)
RECURSIVE ExtendAll(_, _)
ExtendAll(items, all_values) ==
    IF items = <<>> THEN all_values
    ELSE ExtendAll(Tail(items),
                   IF IsList(Head(items).v) THEN all_values \o Head(items).v
                   ELSE all_values)

\* mutant: a new value is put in front of the values kept so far
RECURSIVE UniqueValuesPrepending(_, _, _)
UniqueValuesPrepending(all_values, seen, unique_values) ==
    IF all_values = <<>> THEN unique_values
    ELSE LET val == Head(all_values) IN
         IF Truthy(val) /\ val \notin seen
         THEN UniqueValuesPrepending(Tail(all_values), seen \cup {val},
                                     <<val>> \o unique_values)
         ELSE UniqueValuesPrepending(Tail(all_values), seen, unique_values)

\* the deduplication loop with its seen set
RECURSIVE UniqueValues(_, _, _)
UniqueValues(all_values, seen, unique_values) ==
    IF all_values = <<>> THEN unique_values
    ELSE LET val == Head(all_values) IN
         IF Truthy(val) /\ val \notin seen
         THEN UniqueValues(Tail(all_values), seen \cup {val}, Append(unique_values, val))
         ELSE UniqueValues(Tail(all_values), seen, unique_values)

\* mutant: the values are concatenated and returned as they are
PostProcessWithoutDedup(data) == ExtendAll(data, <<>>)

\* data_processor.py:7-30
post_process_sensitive_data(data) == UniqueValues(ExtendAll(data, <<>>), {}, <<>>)

-----------------------------------------------------------------------------
(* Overrides of redact_pdf_custom *)

\* exclude_lower = [item.lower() for item in exclude_items]
exclude_lower(items) == [i \in 1..Len(items) |-> Lower(items[i])]

\* mutant: the literal is compared as it is cased
KeptByExcludeExactCase(v, items) == ~InSeq(v, exclude_lower(items))

\* server.py:756: v.lower() not in exclude_lower
KeptByExclude(v, items) == ~InSeq(Lower(v), exclude_lower(items))

\* server.py:753-757
ApplyExclude(values, items) ==
    IF items # <<>>
    THEN SelectSeq(values, LAMBDA v : KeptByExclude(v, items))
    ELSE values

\* mutant: an include entry that matches an exclude entry is left out
ShouldIncludeUnlessExcluded(item, values) ==
    item # <<>> /\ ~InSeq(item, values) /\ KeptByExclude(item, exclude_items)

\* mutant: the presence test is missing
ShouldIncludeNonEmpty(item, values) == item # <<>>

\* server.py:763: item and item not in sensitive_values
ShouldInclude(item, values) == item # <<>> /\ ~InSeq(item, values)

\* server.py:761-765
RECURSIVE ApplyInclude(_, _)
ApplyInclude(values, items) ==
    IF items = <<>> THEN values
    ELSE ApplyInclude(IF ShouldInclude(Head(items), values)
                      THEN Append(values, Head(items))
                      ELSE values,
                      Tail(items))

-----------------------------------------------------------------------------
(* Masking reporter: data_processor.py *)

\* '*' * n
Stars(n) == [i \in 1..n |-> "*"]

\* data_processor.py:57-60, 65-68: the first two characters kept, the rest
\* starred; a part of at most two characters starred whole
MaskPart(part) ==
    IF Len(part) <= 2 THEN Stars(Len(part))
    ELSE SubSeq(part, 1, 2) \o Stars(Len(part) - 2)

\* data_processor.py:56-71: value.split('@', 1) and domain.rsplit('.', 1); no
\* statement of the try raises for a str that holds '@', so its bare except
\* is never entered
MaskEmail(value) ==
    LET at == CHOOSE i \in 1..Len(value) :
                  value[i] = "@" /\ \A j \in 1..(i - 1) : value[j] # "@"
        username == SubSeq(value, 1, at - 1)
        domain == SubSeq(value, at + 1, Len(value))
        dots == {i \in 1..Len(domain) : domain[i] = "."}
    IN  IF dots # {}
        THEN LET dot == CHOOSE i \in dots : \A j \in dots : j <= i
                 domain_name == SubSeq(domain, 1, dot - 1)
                 tld == SubSeq(domain, dot + 1, Len(domain))
             IN  MaskPart(username) \o <<"@">> \o MaskPart(domain_name) \o <<".">> \o tld
        ELSE MaskPart(username) \o <<"@">>
                \o SubSeq(domain, 1, IF Len(domain) < 2 THEN Len(domain) ELSE 2)
                \o Stars(3)

\* data_processor.py:54
IsEmailLike(value) == InSeq("@", value) /\ InSeq(".", value)

\* mutant: every value is masked like the local part of an address
MaskValueLikeLocalPart(value) ==
    IF value = PyNone \/ Len(value) < 3 THEN value ELSE MaskPart(value)

\* data_processor.py:49-81: the masked form of one value
MaskValue(value) ==
    IF value = PyNone \/ Len(value) < 3 THEN value
    ELSE IF IsEmailLike(value) THEN MaskEmail(value)
    ELSE IF Len(value) <= 4 THEN Stars(Len(value))
    ELSE SubSeq(value, 1, 2) \o Stars(Len(value) - 4)
            \o SubSeq(value, Len(value) - 1, Len(value))

\* data_processor.py:33-85
mask_sensitive_data(data) ==
    [i \in 1..Len(data) |->
        Entry(data[i].k, [j \in 1..Len(data[i].v) |-> MaskValue(data[i].v[j])])]

-----------------------------------------------------------------------------
(* Detector client cache: server.py:45, 93-110 *)

\* server.py:104: f"{model}:{base_url}"
CacheKey(model, base_url) == model \o <<":">> \o base_url

\* server.py:107: OllamaLLM(model=model, base_url=base_url), a new object
NewInstance(cache, model, base_url) ==
    [model |-> model, base_url |-> base_url, id |-> Len(cache) + 1]

\* server.py:106-107: the cache after get_llm(model, base_url)
CacheAfterGet(cache, model, base_url) ==
    IF ~DictHas(cache, CacheKey(model, base_url))
    THEN Append(cache, Entry(CacheKey(model, base_url), NewInstance(cache, model, base_url)))
    ELSE cache

\* server.py:110: the instance get_llm(model, base_url) returns
get_llm(cache, model, base_url) ==
    DictGet(CacheAfterGet(cache, model, base_url), CacheKey(model, base_url), NoInstance)

\* a call of get_llm(model, base_url) by a tool: the cache is updated and the
\* returned instance is the one the tool goes on with
CallGetLlm(model, base_url) ==
    /\ llm_cache' = CacheAfterGet(llm_cache, model, base_url)
    /\ llm_instance' = get_llm(llm_cache, model, base_url)
    /\ llm_calls' = Append(llm_calls, [model |-> model, base_url |-> base_url,
                                       returned |-> get_llm(llm_cache, model, base_url)])

\* the default arguments of get_llm (server.py:93), as short names
DefaultModel == <<"g", ":", "1">>

DefaultUrl == <<"h">>

-----------------------------------------------------------------------------
(* Documents and paths *)

\* pathlib.Path: parent directory, stem (a sequence of name parts), suffix
MkPath(parent, stem) == [parent |-> parent, stem |-> stem, suffix |-> ".pdf"]

NoPath == MkPath("", <<>>)

SrcPath == MkPath("docs", <<"cv">>)

TmpName == "tmpB"

\* a page of an opened document: its text and the annotations added to it
OpenPage(text) == [text |-> text, highlights |-> <<>>, redacts |-> <<>>]

\* fitz.open(pdf_path): a private copy of the stored pages
FitzOpen(path) == [i \in 1..Len(files[path]) |-> OpenPage(files[path][i].text)]

StoredDoc(texts) == [i \in 1..Len(texts) |-> OpenPage(texts[i])]

\* a closed document: no page of it can be read any more
Closed == <<OpenPage(<<"closed">>)>>

NoFiles == [p \in {} |-> <<>>]

WriteFile(fs, path, content) ==
    [p \in DOMAIN fs \cup {path} |-> IF p = path THEN content ELSE fs[p]]

txtJoAlJo == <<"J", "o", "A", "l", " ", "J", "o">>
txtJo == <<"j", "o">>
txtNone == <<"x">>

Docs == { <<txtJoAlJo, txtJo>>, <<txtJo>>, <<txtNone, txtJoAlJo>> }

-----------------------------------------------------------------------------
(* Redaction Engine: pdf_redactor.apply_redactions *)

MatchesAt(text, needle, i) ==
    /\ i + Len(needle) - 1 <= Len(text)
    /\ \A j \in 1..Len(needle) : LowerChar(text[i + j - 1]) = LowerChar(needle[j])

RECURSIVE SearchFrom(_, _, _)
SearchFrom(text, needle, i) ==
    IF i > Len(text) \/ needle = <<>> THEN <<>>
    ELSE IF MatchesAt(text, needle, i)
         THEN <<[at |-> i, n |-> Len(needle)]>> \o SearchFrom(text, needle, i + Len(needle))
         ELSE SearchFrom(text, needle, i + 1)

\* Page.search_for(needle): one region per occurrence, left to right; PyMuPDF
\* ignores upper/lower case of ASCII letters
search_for(page, needle) == SearchFrom(page.text, needle, 1)

\* mutant: only empty values are skipped
SkipValueEmptyOnly(v) == ~Truthy(v)

\* pdf_redactor.py:39
SkipValue(v) == ~Truthy(v) \/ Len(v) < 2

\* mutant: only the first occurrence is highlighted
AddFirstHighlightOnly(page, text_instances) ==
    [page EXCEPT !.highlights =
        @ \o (IF text_instances = <<>> THEN <<>> ELSE <<text_instances[1]>>)]

\* pdf_redactor.py:47-49: a highlight annotation per occurrence
AddHighlights(page, text_instances) == [page EXCEPT !.highlights = @ \o text_instances]

\* mutant: registering a region removes the text under it at once
AddRedactAnnotsAndRemove(page, text_instances) ==
    [page EXCEPT
        !.redacts = @ \o text_instances,
        !.text = [i \in 1..Len(page.text) |->
                    IF \E k \in 1..Len(text_instances) :
                          text_instances[k].at <= i
                          /\ i < text_instances[k].at + text_instances[k].n
                    THEN "#" ELSE page.text[i]]]

\* pdf_redactor.py:52: a pending redaction annotation per occurrence
AddRedactAnnots(page, text_instances) == [page EXCEPT !.redacts = @ \o text_instances]

InRegion(i, r) == r.at <= i /\ i < r.at + r.n

\* Page.apply_redactions(): the text under every pending region is removed and
\* the pending annotations are consumed
CommitRedactions(page) ==
    [page EXCEPT
        !.text = [i \in 1..Len(page.text) |->
                    IF \E k \in 1..Len(page.redacts) : InRegion(i, page.redacts[k])
                    THEN "#" ELSE page.text[i]],
        !.redacts = <<>>]

\* pdf_redactor.py:21-28
EngineOpen(path, values) ==
    /\ rpc = "idle"
    /\ r_args' = [pdf_path |-> path, sensitive_values |-> values]
    /\ doc_redacted' = FitzOpen(path)
    /\ doc_highlighted' = FitzOpen(path)
    /\ redaction_summary' =
          [total_pages |-> Len(files[path]), redacted_pages |-> <<>>, total_redactions |-> 0]
    /\ registered' = [i \in 1..Len(files[path]) |-> <<>>]
    /\ page_num' = 1
    /\ value_idx' = 1
    /\ page_stats' = 0
    /\ search_log' = <<>>
    /\ rpc' = "loop"
    /\ UNCHANGED <<files, out_paths>>

\* pdf_redactor.py:38-55: one literal on the current page
SearchValue ==
    /\ rpc = "loop"
    /\ page_num <= Len(doc_redacted)
    /\ value_idx <= Len(r_args.sensitive_values)
    /\ LET v == r_args.sensitive_values[value_idx]
           text_instances == IF SkipValue(v) THEN <<>>
                             ELSE search_for(doc_redacted[page_num], v)
       IN  /\ doc_highlighted' =
                 [doc_highlighted EXCEPT ![page_num] = AddHighlights(@, text_instances)]
           /\ doc_redacted' =
                 [doc_redacted EXCEPT ![page_num] = AddRedactAnnots(@, text_instances)]
           /\ registered' = [registered EXCEPT ![page_num] = @ \o text_instances]
           /\ page_stats' = page_stats + Len(text_instances)
           /\ search_log' = IF SkipValue(v) THEN search_log
                            ELSE Append(search_log, [op |-> "search", page |-> page_num, needle |-> v])
    /\ value_idx' = value_idx + 1
    /\ UNCHANGED <<files, rpc, r_args, page_num, redaction_summary, out_paths>>

\* pdf_redactor.py:57-61: commit the page and record its statistics
CommitPage ==
    /\ rpc = "loop"
    /\ page_num <= Len(doc_redacted)
    /\ value_idx > Len(r_args.sensitive_values)
    /\ doc_redacted' = [doc_redacted EXCEPT ![page_num] = CommitRedactions(@)]
    /\ redaction_summary' =
          [redaction_summary EXCEPT
              !.redacted_pages =
                  Append(@, [page |-> page_num, number_of_redactions |-> page_stats]),
              !.total_redactions = @ + page_stats]
    /\ page_num' = page_num + 1
    /\ value_idx' = 1
    /\ page_stats' = 0
    /\ search_log' = Append(search_log, [op |-> "commit", page |-> page_num, needle |-> <<>>])
    /\ UNCHANGED <<files, rpc, r_args, doc_highlighted, registered, out_paths>>

\* pdf_redactor.py:43-58: search_for, add_highlight_annot, add_redact_annot or
\* Page.apply_redactions raises; nothing in apply_redactions catches it
PageFault ==
    /\ rpc = "loop"
    /\ page_num <= Len(doc_redacted)
    /\ rpc' = "raised"
    /\ UNCHANGED <<files, r_args, doc_redacted, doc_highlighted, page_num, value_idx,
                   page_stats, redaction_summary, registered, out_paths, search_log>>

\* an entry of the history for a save attempt
SaveEntry(op) == [op |-> op, page |-> 0, needle |-> <<>>]

\* mutant: the redacted document is saved over the source
SourceDirPathsOverSource(path) ==
    [redacted |-> path,
     highlighted |-> MkPath(path.parent, Append(path.stem, "_highlighted"))]

\* pdf_redactor.py:68-70
SourceDirPaths(path) ==
    [redacted |-> MkPath(path.parent, Append(path.stem, "_redacted")),
     highlighted |-> MkPath(path.parent, Append(path.stem, "_highlighted"))]

\* mutant: the fallback names are built next to the source again
TempPathsNextToSource == SourceDirPaths(r_args.pdf_path)

\* pdf_redactor.py:79-81
TempPaths ==
    [redacted |-> MkPath("tmp", <<TmpName, "_redacted">>),
     highlighted |-> MkPath("tmp", <<TmpName, "_highlighted">>)]

\* pdf_redactor.py:67-77: the save next to the source; either save may fail
SaveToSourceDir ==
    /\ rpc = "loop"
    /\ page_num > Len(doc_redacted)
    /\ LET paths == SourceDirPaths(r_args.pdf_path) IN
       /\ out_paths' = paths
       /\ \/ /\ files' = WriteFile(WriteFile(files, paths.redacted, doc_redacted),
                                    paths.highlighted, doc_highlighted)
             /\ search_log' = Append(search_log, SaveEntry("save_source:ok"))
             /\ rpc' = "close"
          \/ /\ files' = files
             /\ search_log' = Append(search_log, SaveEntry("save_source:failed"))
             /\ rpc' = "fallback"
          \/ /\ files' = WriteFile(files, paths.redacted, doc_redacted)
             /\ search_log' = Append(search_log, SaveEntry("save_source:failed"))
             /\ rpc' = "fallback"
    /\ UNCHANGED <<r_args, doc_redacted, doc_highlighted, page_num, value_idx,
                   page_stats, redaction_summary, registered>>

\* pdf_redactor.py:79-84: the one fallback to a temporary location
SaveToTemp ==
    /\ rpc = "fallback"
    /\ LET paths == TempPaths
           created == WriteFile(files, paths.redacted, <<>>)
       IN
       /\ out_paths' = paths
       /\ \/ /\ files' = WriteFile(WriteFile(created, paths.redacted, doc_redacted),
                                    paths.highlighted, doc_highlighted)
             /\ search_log' = Append(search_log, SaveEntry("save_temp:ok"))
             /\ rpc' = "close"
          \/ /\ files' = created
             /\ search_log' = Append(search_log, SaveEntry("save_temp:failed"))
             /\ rpc' = "raised"
          \/ /\ files' = WriteFile(created, paths.redacted, doc_redacted)
             /\ search_log' = Append(search_log, SaveEntry("save_temp:failed"))
             /\ rpc' = "raised"
    /\ UNCHANGED <<r_args, doc_redacted, doc_highlighted, page_num, value_idx,
                   page_stats, redaction_summary, registered>>

\* pdf_redactor.py:86-92
EngineReturn ==
    /\ rpc = "close"
    /\ doc_redacted' = Closed
    /\ doc_highlighted' = Closed
    /\ rpc' = "returned"
    /\ UNCHANGED <<files, r_args, page_num, value_idx, page_stats,
                   redaction_summary, registered, out_paths, search_log>>

EngineIdle ==
    /\ rpc = "idle"
    /\ r_args = [pdf_path |-> NoPath, sensitive_values |-> <<>>]
    /\ doc_redacted = Closed
    /\ doc_highlighted = Closed
    /\ page_num = 0
    /\ value_idx = 0
    /\ page_stats = 0
    /\ redaction_summary = [total_pages |-> 0, redacted_pages |-> <<>>, total_redactions |-> 0]
    /\ registered = <<>>
    /\ out_paths = [redacted |-> NoPath, highlighted |-> NoPath]
    /\ search_log = <<>>

-----------------------------------------------------------------------------
(* Text Extractor: pdf_extractor.get_pdf_text *)

ExtractorIdle ==
    [xpc |-> "idle", file_path |-> NoPath, page_chunks |-> FALSE, doc |-> "none",
     page |-> 0, texts |-> <<>>, exc |-> "none"]

\* pdf_extractor.py:29-31, 36-37, 41-42: page.get_text() raised inside the try;
\* the handler wraps the error, and nothing on that path touches the document
DocAfterPageError == extractor.doc

\* pdf_extractor.py:19-25: the existence test, then fitz.open, which may raise
ExtractorOpen(path, page_chunks) ==
    /\ extractor.xpc = "idle"
    /\ \E opened \in BOOLEAN :
          extractor' =
             IF ~(path \in DOMAIN files)
             THEN [extractor EXCEPT !.xpc = "raised", !.file_path = path,
                                    !.page_chunks = page_chunks,
                                    !.exc = "FileNotFoundError"]
             ELSE IF ~opened
             THEN [extractor EXCEPT !.xpc = "raised", !.file_path = path,
                                    !.page_chunks = page_chunks, !.exc = "Exception"]
             ELSE [extractor EXCEPT !.xpc = "read", !.file_path = path,
                                    !.page_chunks = page_chunks, !.doc = "open",
                                    !.page = 1]

\* pdf_extractor.py:29-31, 36-37: the text of one page is read, or the read raises
ExtractorReadPage ==
    /\ extractor.xpc = "read"
    /\ extractor.page <= Len(files[extractor.file_path])
    /\ \/ extractor' = [extractor EXCEPT
                            !.texts =
                                IF extractor.page_chunks
                                THEN Append(@, files[extractor.file_path][extractor.page].text)
                                ELSE @ \o files[extractor.file_path][extractor.page].text,
                            !.page = @ + 1]
       \/ extractor' = [extractor EXCEPT !.xpc = "raised", !.exc = "Exception",
                                         !.doc = DocAfterPageError]

\* pdf_extractor.py:32-33, 38-39: doc.close() and the return
ExtractorReturn ==
    /\ extractor.xpc = "read"
    /\ extractor.page > Len(files[extractor.file_path])
    /\ extractor' = [extractor EXCEPT !.xpc = "returned", !.doc = "closed"]

-----------------------------------------------------------------------------
(* ProgressTracker: server.py:48-90 *)

NoSummary == [steps_completed |-> -1, steps_failed |-> -1]

\* server.py:55-66
add_step(trace, step_name, status) == Append(trace, [step |-> step_name, status |-> status])

\* server.py:68-74, 76-81: the last step is marked, when it has the given name
MarkLast(trace, step_name, status) ==
    IF trace # <<>> /\ trace[Len(trace)].step = step_name
    THEN [trace EXCEPT ![Len(trace)].status = status]
    ELSE trace

complete_step(trace, step_name) == MarkLast(trace, step_name, "completed")

fail_step(trace, step_name) == MarkLast(trace, step_name, "failed")

WithStatus(trace, status) == Cardinality({i \in 1..Len(trace) : trace[i].status = status})

\* server.py:83-90: the counts are taken when get_summary is called; "steps" is
\* the list of the tracker itself, not a copy of it
get_summary(trace) ==
    [steps_completed |-> WithStatus(trace, "completed"),
     steps_failed |-> WithStatus(trace, "failed")]

\* the step the handler of a tool marks as failed (server.py:275, 408, 636, 866)
HandlerStep ==
    CASE tool = "status" -> "Checking Ollama Connection"
      [] tool = "analyze" -> "Analysis"
      [] tool = "redact" -> "Redaction"
      [] tool = "custom" -> "Custom Redaction"
      [] OTHER -> "none"

\* the tracker of a tool that goes on with the trace it has built
Track(trace) == steps' = trace /\ UNCHANGED summary

\* ... that returns a response holding tracker.get_summary()
TrackReturn(trace) == steps' = trace /\ summary' = get_summary(trace)

\* ... whose handler marks its step as failed and returns the summary
TrackCaught(trace) ==
    /\ steps' = fail_step(trace, HandlerStep)
    /\ summary' = get_summary(fail_step(trace, HandlerStep))

-----------------------------------------------------------------------------
(* The tool operations of server.py: analyze_pdf_sensitive_data, redact_pdf, *)
(* redact_pdf_custom                                                         *)

NoResponse == [error |-> "none", status |-> "none", total_redactions |-> -1]

ToolIdle ==
    /\ tool = "none"
    /\ pc = "idle"
    /\ pdf_path = NoPath
    /\ pdf_base64 = "none"
    /\ return_base64 = FALSE
    /\ temp_file = NoPath
    /\ response = NoResponse
    /\ sensitive_data = <<>>
    /\ sensitive_values = <<>>
    /\ values_in = <<>>
    /\ exclude_items = <<>>
    /\ include_items = <<>>
    /\ masked_data = <<>>
    /\ llm_cache = <<>>
    /\ llm_instance = NoInstance
    /\ llm_calls = <<>>
    /\ extractor = ExtractorIdle
    /\ steps = <<>>
    /\ summary = NoSummary
    /\ trail = <<>>

\* the document every tool invocation works on
ToolDoc == <<txtJoAlJo, txtJo>>

MissingPath == MkPath("docs", <<"gone">>)

\* tempfile.NamedTemporaryFile(delete=False, suffix=".pdf") of save_base64_to_temp
TmpInput == MkPath("tmp", <<"tmpA">>)

InitialFiles == WriteFile(NoFiles, SrcPath, StoredDoc(ToolDoc))

RemoveFile(fs, path) == [p \in DOMAIN fs \ {path} |-> fs[p]]

\* os.path.exists
Exists(fs, path) == path \in DOMAIN fs

ErrorResponse(kind) == [error |-> kind, status |-> "none", total_redactions |-> -1]

StatusResponse(status, total) == [error |-> "none", status |-> status, total_redactions |-> total]

\* analyze_pdf_sensitive_data and redact_pdf return through their finally
\* clause; the other tools have none
AfterResponse == IF tool \in {"analyze", "redact"} THEN "cleanup" ELSE "done"

Return(r) == response' = r /\ pc' = AfterResponse

\* mutant: the tools catch the errors of the operating system only
ToolCatchesOSErrorOnly(exc) == exc = "OSError"

\* the outermost "except Exception" of a tool (server.py:228, 274, 405, 629, 859)
ToolCatches(exc) == TRUE

\* an exception reaches the outermost try of the tool
Caught(exc) ==
    IF ToolCatches(exc)
    THEN Return(ErrorResponse("exception"))
    ELSE pc' = "propagated" /\ UNCHANGED response

dictFound == <<Entry("names", PList(<<PStr(sJo)>>)), Entry("emails", PList(<<PStr(sJoAl)>>))>>

\* the outcomes of the inference request a tool invocation can meet
ToolOutcomes ==
    {HttpTimeout, HttpStatus(500),
     HttpJson(PDict(<<Entry("response", PText(<<SegProse>>))>>)),
     HttpJson(PDict(<<Entry("response", PText(<<SegObj({}, <<>>)>>))>>)),
     HttpJson(PDict(<<Entry("response", PText(<<SegFence, SegObj({}, dictNames), SegFence>>))>>)),
     HttpJson(PDict(<<Entry("response", PDict(dictFound))>>))}

ExcludeChoices == {<<>>, <<sjo>>, <<sJO, sJoAl>>}

IncludeChoices == {<<>>, <<sAl>>, <<sEmpty>>}

\* a tool operation is invoked with its arguments
ToolCall ==
    /\ pc = "idle"
    /\ \E t \in {"list", "status", "analyze", "redact", "custom"}, path \in {NoPath, SrcPath, MissingPath},
          b64 \in {"none", "valid", "invalid"}, rb \in BOOLEAN,
          ex \in ExcludeChoices, inc \in IncludeChoices :
          /\ t = "custom" => b64 = "none"
          /\ t # "custom" => ex = <<>> /\ inc = <<>>
          /\ t = "analyze" => ~rb
          /\ t \in {"list", "status"} => path = NoPath /\ b64 = "none" /\ ~rb
          /\ tool' = t
          /\ pdf_path' = path
          /\ pdf_base64' = b64
          /\ return_base64' = rb
          /\ exclude_items' = ex
          /\ include_items' = inc
          /\ pc' = CASE t = "list" -> "list"
                      [] t = "status" -> "status"
                      [] t = "custom" -> "setup"
                      [] OTHER -> "init"
    /\ UNCHANGED <<sideVars, temp_file, response, sensitive_data, sensitive_values, values_in,
                   engineVars, detVars>>

\* server.py:333, 341, 487, 495, 701: what the test of the input finds
InputCheck(fs, path) ==
    IF path = NoPath THEN "input:none"
    ELSE IF Exists(fs, path) THEN "input:exists" ELSE "input:missing"

\* mutant: a failed connectivity check is not acted on
ConnectionFailedIgnored(connected) == FALSE

\* server.py:318, 472, 718: if not llm_instance.check_connection()
ConnectionFailed(connected) == ~connected

\* server.py:176-232: list_available_models
ListModels ==
    /\ pc = "list"
    /\ \E outcome \in {"raised", "status_500", "no_models", "models"} :
          /\ trail' = Append(trail, "requests.get")
                          \o (IF outcome = "raised" THEN <<"raised">> ELSE <<>>)
          /\ CASE outcome = "raised" -> Caught("ConnectionError")
               [] outcome = "status_500" -> Return(ErrorResponse("connection"))
               [] outcome = "no_models" -> Return(StatusResponse("no_models", -1))
               [] outcome = "models" -> Return(StatusResponse("success", -1))
    /\ UNCHANGED <<masked_data, llm_cache, llm_instance, llm_calls, extractor, steps, summary, tool, pdf_path, pdf_base64,
                   return_base64, temp_file, normVars, engineVars, detVars>>

\* server.py:236-279: check_ollama_status; check_connection answers False for
\* a request error and lets any other exception through
CheckStatus ==
    /\ pc = "status"
    /\ CallGetLlm(DefaultModel, DefaultUrl)
    /\ \E outcome \in {"raised", "connected", "disconnected"} :
          /\ trail' = CASE outcome = "raised" -> trail \o <<"check_connection", "raised">>
                        [] outcome = "connected" -> Append(trail, "check_connection:True")
                        [] outcome = "disconnected" -> Append(trail, "check_connection:False")
          /\ LET s == add_step(steps, "Checking Ollama Connection", "in_progress") IN
             CASE outcome = "raised" -> TrackCaught(s)
               [] outcome = "connected" ->
                    TrackReturn(complete_step(s, "Checking Ollama Connection"))
               [] outcome = "disconnected" ->
                    TrackReturn(fail_step(s, "Checking Ollama Connection"))
          /\ IF outcome = "raised"
             THEN Caught("RuntimeError")
             ELSE Return(StatusResponse(outcome, -1))
    /\ UNCHANGED <<masked_data, extractor, tool, pdf_path, pdf_base64, return_base64, temp_file,
                   normVars, engineVars, detVars>>

\* server.py:698-712
CustomSetup ==
    /\ pc = "setup"
    /\ trail' = Append(trail, InputCheck(files, pdf_path))
    /\ LET s == add_step(steps, "Custom Redaction Setup", "in_progress") IN
       IF pdf_path = NoPath \/ ~Exists(files, pdf_path)
       THEN /\ TrackReturn(fail_step(s, "Custom Redaction Setup"))
            /\ Return(ErrorResponse("not_found"))
       ELSE /\ Track(complete_step(s, "Custom Redaction Setup"))
            /\ pc' = "init" /\ UNCHANGED response
    /\ UNCHANGED <<masked_data, llm_cache, llm_instance, llm_calls, extractor, tool, pdf_path, pdf_base64, return_base64, temp_file,
                   normVars, engineVars, detVars>>

\* server.py:312-324, 466-478, 715-725: get_llm and check_connection
CheckConnection ==
    /\ pc = "init"
    /\ CallGetLlm(DefaultModel, DefaultUrl)
    /\ \E connected \in BOOLEAN :
          /\ trail' = Append(trail, IF connected THEN "check_connection:True"
                                                 ELSE "check_connection:False")
          /\ LET check == IF tool = "custom" THEN "Initialization"
                          ELSE "Ollama Connection Check"
                 s == IF tool = "custom"
                      THEN add_step(steps, "Initialization", "in_progress")
                      ELSE add_step(complete_step(add_step(steps, "Initialization", "in_progress"),
                                                  "Initialization"),
                                    "Ollama Connection Check", "in_progress")
             IN  IF ConnectionFailed(connected)
                 THEN /\ TrackReturn(fail_step(s, check))
                      /\ Return(ErrorResponse("connection"))
                 ELSE /\ Track(complete_step(s, check))
                      /\ pc' = IF tool = "custom" THEN "extract" ELSE "input"
                      /\ UNCHANGED response
    /\ UNCHANGED <<masked_data, extractor, tool, pdf_path, pdf_base64, return_base64, temp_file,
                   normVars, engineVars, detVars>>

\* server.py:327-349, 481-503: the input is decoded and resolved to a file
InputProcessing ==
    /\ pc = "input"
    /\ IF pdf_base64 = "invalid"
       THEN /\ files' = WriteFile(files, TmpInput, <<>>)
            /\ trail' = trail \o <<"save_base64_to_temp", "raised">>
            /\ TrackCaught(add_step(add_step(steps, "Input Processing", "in_progress"),
                                    "Base64 Decoding", "in_progress"))
            /\ Caught("binascii.Error")
            /\ UNCHANGED <<pdf_path, temp_file>>
       ELSE LET decoded == pdf_base64 = "valid"
                path == IF decoded THEN TmpInput ELSE pdf_path
                fs == IF decoded THEN WriteFile(files, TmpInput, StoredDoc(ToolDoc)) ELSE files
            IN  /\ files' = fs
                /\ trail' = (IF decoded THEN Append(trail, "save_base64_to_temp") ELSE trail)
                                \o <<InputCheck(fs, path)>>
                /\ pdf_path' = path
                /\ temp_file' = IF decoded THEN TmpInput ELSE temp_file
                /\ LET s0 == add_step(steps, "Input Processing", "in_progress")
                       s == IF decoded
                            THEN complete_step(add_step(s0, "Base64 Decoding", "in_progress"),
                                               "Base64 Decoding")
                            ELSE s0
                   IN  IF path = NoPath
                       THEN /\ TrackReturn(fail_step(s, "Input Processing"))
                            /\ Return(ErrorResponse("no_input"))
                       ELSE IF ~Exists(fs, path)
                       THEN /\ TrackReturn(fail_step(s, "Input Processing"))
                            /\ Return(ErrorResponse("not_found"))
                       ELSE /\ Track(complete_step(s, "Input Processing"))
                            /\ pc' = "extract" /\ UNCHANGED response
    /\ UNCHANGED <<masked_data, llm_cache, llm_instance, llm_calls, extractor, tool, pdf_base64, return_base64,
                   normVars, engineState, detVars>>

\* server.py:353, 507, 729: get_pdf_text(pdf_path) is called
ExtractText ==
    /\ pc = "extract"
    /\ ExtractorOpen(pdf_path, FALSE)
    /\ trail' = Append(trail, "get_pdf_text")
    /\ Track(add_step(steps, "Text Extraction", "in_progress"))
    /\ pc' = "extracting"
    /\ UNCHANGED <<masked_data, llm_cache, llm_instance, llm_calls, tool, pdf_path, pdf_base64,
                   return_base64, temp_file, response, normVars, engineVars, detVars>>

\* the steps of get_pdf_text while the tool waits for it
ExtractorStep ==
    /\ pc = "extracting"
    /\ \/ ExtractorReadPage
       \/ ExtractorReturn
    /\ UNCHANGED <<masked_data, llm_cache, llm_instance, llm_calls, steps, summary, trail,
                   toolVars, normVars, engineVars, detVars>>

\* server.py:352-355, 506-509, 728-730: get_pdf_text returns the text or raises
ExtractDone ==
    /\ pc = "extracting"
    /\ extractor.xpc \in {"returned", "raised"}
    /\ IF extractor.xpc = "raised"
       THEN /\ trail' = Append(trail, "raised")
            /\ TrackCaught(steps)
            /\ Caught("RuntimeError")
       ELSE /\ Track(complete_step(steps, "Text Extraction"))
            /\ pc' = "detect" /\ UNCHANGED <<response, trail>>
    /\ UNCHANGED <<masked_data, llm_cache, llm_instance, llm_calls, extractor, tool, pdf_path,
                   pdf_base64, return_base64, temp_file, normVars, engineVars, detVars>>

\* mutant: the report is made from the final list of literals
ReportSourceFinalList == <<Entry("names", sensitive_values)>>

\* server.py:385, 565, 790: the argument of mask_sensitive_data
ReportSource == sensitive_data

\* server.py:362, 516, 736: the test for a detector that returned nothing
LlmReturnedNothing(data) == Len(data) = 0

AfterDetection ==
    CASE tool = "analyze" -> "results"
      [] tool = "redact" -> "check_found"
      [] tool = "custom" -> "custom_flatten"

\* server.py:358-370, 512-523, 733-743
Detect ==
    /\ pc = "detect"
    /\ \E o \in ToolOutcomes :
          LET r == get_sensitive_data(o) IN
          /\ http' = o
          /\ det' = r
          /\ trail' = Append(trail, "get_sensitive_data")
                          \o (IF r.exc = "none" THEN <<>> ELSE <<"raised">>)
          /\ dpc' = IF r.exc = "none" THEN "returned" ELSE "raised"
          /\ LET s == add_step(steps, "Sensitive Data Detection", "in_progress") IN
             IF r.exc # "none"
             THEN TrackCaught(s) /\ Caught(r.exc) /\ UNCHANGED sensitive_data
             ELSE /\ sensitive_data' = r.val
                  /\ IF LlmReturnedNothing(r.val)
                     THEN /\ TrackReturn(fail_step(s, "Sensitive Data Detection"))
                          /\ Return(ErrorResponse("llm_failed"))
                     ELSE /\ Track(complete_step(s, "Sensitive Data Detection"))
                          /\ pc' = AfterDetection /\ UNCHANGED response
    /\ UNCHANGED <<masked_data, llm_cache, llm_instance, llm_calls, extractor, tool, pdf_path, pdf_base64,
                   return_base64, temp_file, sensitive_values, values_in, exclude_items,
                   include_items, engineVars>>

\* server.py:375, 526: not sensitive_data or all(len(v) == 0 ...)
NothingFound(data) == Len(data) = 0 \/ \A i \in 1..Len(data) : Len(data[i].v) = 0

\* server.py:373-403
AnalyzeResults ==
    /\ pc = "results"
    /\ IF NothingFound(sensitive_data)
       THEN Return(StatusResponse("no_sensitive_data", -1)) /\ UNCHANGED masked_data
       ELSE /\ masked_data' = mask_sensitive_data(ReportSource)
            /\ Return(StatusResponse("success", -1))
    /\ TrackReturn(complete_step(add_step(steps, "Results Processing", "in_progress"),
                                 "Results Processing"))
    /\ UNCHANGED <<llm_cache, llm_instance, llm_calls, extractor, trail, tool, pdf_path, pdf_base64, return_base64, temp_file,
                   normVars, engineVars, detVars>>

\* server.py:526-533
CheckFound ==
    /\ pc = "check_found"
    /\ IF NothingFound(sensitive_data)
       THEN /\ TrackReturn(add_step(steps, "Validation", "completed"))
            /\ Return(StatusResponse("no_sensitive_data", -1))
       ELSE /\ Track(steps)
            /\ pc' = "flatten" /\ UNCHANGED response
    /\ UNCHANGED <<masked_data, llm_cache, llm_instance, llm_calls, extractor, trail, tool, pdf_path, pdf_base64, return_base64, temp_file,
                   normVars, engineVars, detVars>>

\* mutant: the list is never taken to be empty
NothingToRedactNever(values) == FALSE

\* server.py:549, 770: the literal list is empty
NothingToRedact(values) == Len(values) = 0

\* server.py:536-556
Flatten ==
    /\ pc = "flatten"
    /\ sensitive_values' = post_process_sensitive_data(sensitive_data)
    /\ LET s == complete_step(add_step(steps, "Data Processing", "in_progress"),
                              "Data Processing")
       IN  IF NothingToRedact(sensitive_values')
           THEN /\ TrackReturn(add_step(s, "Validation", "completed"))
                /\ Return(StatusResponse("no_sensitive_data", -1))
           ELSE /\ Track(s)
                /\ pc' = "apply" /\ UNCHANGED response
    /\ UNCHANGED <<masked_data, llm_cache, llm_instance, llm_calls, extractor, trail, tool, pdf_path, pdf_base64, return_base64, temp_file,
                   sensitive_data, values_in, exclude_items, include_items,
                   engineVars, detVars>>

\* server.py:749
CustomFlatten ==
    /\ pc = "custom_flatten"
    /\ sensitive_values' = post_process_sensitive_data(sensitive_data)
    /\ Track(add_step(steps, "Applying User Preferences", "in_progress"))
    /\ pc' = "custom_exclude"
    /\ UNCHANGED <<masked_data, llm_cache, llm_instance, llm_calls, extractor, trail, tool, pdf_path, pdf_base64, return_base64, temp_file, response,
                   sensitive_data, values_in, exclude_items, include_items,
                   engineVars, detVars>>

\* server.py:751-757
CustomExclude ==
    /\ pc = "custom_exclude"
    /\ values_in' = sensitive_values
    /\ sensitive_values' = ApplyExclude(sensitive_values, exclude_items)
    /\ pc' = "custom_include"
    /\ UNCHANGED <<sideVars, tool, pdf_path, pdf_base64, return_base64, temp_file, response,
                   sensitive_data, exclude_items, include_items, engineVars, detVars>>

\* server.py:759-768
CustomInclude ==
    /\ pc = "custom_include"
    /\ values_in' = sensitive_values
    /\ sensitive_values' = ApplyInclude(sensitive_values, include_items)
    /\ Track(complete_step(steps, "Applying User Preferences"))
    /\ pc' = "custom_check"
    /\ UNCHANGED <<masked_data, llm_cache, llm_instance, llm_calls, extractor, trail, tool, pdf_path, pdf_base64, return_base64, temp_file, response,
                   sensitive_data, exclude_items, include_items, engineVars, detVars>>

\* server.py:770-779
CustomCheck ==
    /\ pc = "custom_check"
    /\ IF NothingToRedact(sensitive_values)
       THEN /\ TrackReturn(add_step(steps, "Validation", "completed"))
            /\ Return(StatusResponse("no_sensitive_data", -1))
       ELSE /\ Track(steps)
            /\ pc' = "apply" /\ UNCHANGED response
    /\ UNCHANGED <<masked_data, llm_cache, llm_instance, llm_calls, extractor, trail, tool, pdf_path, pdf_base64, return_base64, temp_file,
                   normVars, engineVars, detVars>>

\* server.py:559-560, 782-784: apply_redactions is entered
Apply ==
    /\ pc = "apply"
    /\ EngineOpen(pdf_path, sensitive_values)
    /\ trail' = Append(trail, "apply_redactions")
    /\ Track(add_step(steps, "PDF Redaction", "in_progress"))
    /\ pc' = "applying"
    /\ UNCHANGED <<masked_data, llm_cache, llm_instance, llm_calls, extractor, tool, pdf_path, pdf_base64, return_base64, temp_file, response,
                   normVars, detVars>>

\* server.py:560-561, 784-786: apply_redactions returns or raises
ApplyDone ==
    /\ pc = "applying"
    /\ rpc \in {"returned", "raised"}
    /\ IF rpc = "raised"
       THEN /\ trail' = Append(trail, "raised")
            /\ TrackCaught(steps)
            /\ Caught("OSError")
       ELSE /\ Track(complete_step(steps, "PDF Redaction"))
            /\ pc' = "output" /\ UNCHANGED <<response, trail>>
    /\ UNCHANGED <<masked_data, llm_cache, llm_instance, llm_calls, extractor, tool, pdf_path, pdf_base64, return_base64, temp_file,
                   normVars, engineVars, detVars>>

\* server.py:563-627, 788-857: the report; file_to_base64 may raise
Output ==
    /\ pc = "output"
    /\ masked_data' = mask_sensitive_data(ReportSource)
    /\ \E encoded \in BOOLEAN :
          /\ trail' = trail \o (IF return_base64 THEN <<"file_to_base64">> ELSE <<>>)
                             \o (IF return_base64 /\ ~encoded THEN <<"raised">> ELSE <<>>)
          /\ LET report == IF tool = "custom" THEN "Creating Report" ELSE "Masking Data"
                 prepared == add_step(complete_step(add_step(steps, report, "in_progress"), report),
                                      "Output Preparation", "in_progress")
                 encoding == IF tool = "redact"
                             THEN add_step(prepared, "Base64 Encoding", "in_progress")
                             ELSE prepared
                 encoded_both ==
                     IF tool = "redact"
                     THEN complete_step(
                              add_step(complete_step(encoding, "Base64 Encoding"),
                                       "Base64 Encoding Highlighted", "in_progress"),
                              "Base64 Encoding Highlighted")
                     ELSE prepared
                 built == IF return_base64 THEN encoded_both ELSE prepared
             IN  IF return_base64 /\ ~encoded
                 THEN TrackCaught(encoding) /\ Caught("OSError")
                 ELSE /\ summary' = get_summary(built)
                      /\ steps' = complete_step(built, "Output Preparation")
                      /\ Return(StatusResponse("success", redaction_summary.total_redactions))
    /\ UNCHANGED <<llm_cache, llm_instance, llm_calls, extractor, tool, pdf_path, pdf_base64, return_base64, temp_file,
                   normVars, engineVars, detVars>>

\* server.py:415-422, 645-651: the finally clause
Cleanup ==
    /\ pc = "cleanup"
    /\ files' = IF temp_file # NoPath /\ Exists(files, temp_file)
                THEN RemoveFile(files, temp_file)
                ELSE files
    /\ pc' = "done"
    /\ UNCHANGED <<sideVars, tool, pdf_path, pdf_base64, return_base64, temp_file, response,
                   normVars, engineState, detVars>>

EngineStep ==
    /\ \/ SearchValue
       \/ CommitPage
       \/ PageFault
       \/ SaveToSourceDir
       \/ SaveToTemp
       \/ EngineReturn
    /\ UNCHANGED <<sideVars, toolVars, normVars, detVars>>

Init == ToolIdle /\ EngineIdle /\ DetectIdle /\ files = InitialFiles

Next ==
    \/ ToolCall
    \/ ListModels
    \/ CheckStatus
    \/ CustomSetup
    \/ CheckConnection
    \/ InputProcessing
    \/ ExtractText
    \/ ExtractorStep
    \/ ExtractDone
    \/ Detect
    \/ AnalyzeResults
    \/ CheckFound
    \/ Flatten
    \/ CustomFlatten
    \/ CustomExclude
    \/ CustomInclude
    \/ CustomCheck
    \/ Apply
    \/ EngineStep
    \/ ApplyDone
    \/ Output
    \/ Cleanup

Spec == Init /\ [][Next]_vars

-----------------------------------------------------------------------------
(* The detector on its own: every outcome of the inference request *)

MaxItems == 2
MaxSegs == 4

ItemPool ==
    {PStr(sJo), PStr(<<>>), PInt(12), PInt(0), PNull, PBool(TRUE), PList(<<PStr(sJo)>>)}

ScalarPool == {PStr(sJo), PStr(<<>>), PInt(5), PNull, PBool(TRUE), PDict(<<>>)}

ValuePool == ScalarPool \cup {PList(l) : l \in BoundedSeq(ItemPool, MaxItems)}

SecondEntries ==
    {<<>>, <<Entry("emails", PStr(sAl))>>, <<Entry("extra", PList(<<PStr(sAl)>>))>>}

\* the objects a model can answer with: known and unknown keys, any value shape
RawDicts ==
    {<<>>} \cup
    {<<Entry(key, value)>> \o second :
        key \in {"names", "other_pii", "bogus"}, value \in ValuePool, second \in SecondEntries}

SegPool ==
    {SegWs, SegProse, SegFence, SegArr,
     SegObj({}, dictNames), SegObj({"trailing_comma"}, dictEmails),
     SegObj({"unquoted_key"}, dictNames)}

Texts == BoundedSeq(SegPool, MaxSegs)

Responses ==
    {PDict(d) : d \in RawDicts} \cup {PText(t) : t \in Texts} \cup {PNull, PInt(3), PList(<<>>)}

HttpOutcomes ==
    {HttpTimeout, HttpConnError, HttpStatus(500), HttpNotJson,
     HttpJson(PList(<<>>)), HttpJson(PDict(<<>>))}
    \cup {HttpJson(PDict(<<Entry("response", r)>>)) : r \in Responses}

\* ollama_llm.py:85-90: the request is sent and its outcome arrives
PostRequest ==
    /\ dpc = "idle"
    /\ \E o \in HttpOutcomes : http' = o
    /\ dpc' = "posted"
    /\ UNCHANGED det

\* ollama_llm.py:92-117: the outcome is turned into the returned value
HandleResponse ==
    /\ dpc = "posted"
    /\ det' = get_sensitive_data(http)
    /\ dpc' = IF det'.exc = "none" THEN "returned" ELSE "raised"
    /\ UNCHANGED http

InitDetect == ToolIdle /\ EngineIdle /\ files = NoFiles /\ DetectIdle

NextDetect ==
    \/ PostRequest /\ UNCHANGED <<sideVars, toolVars, normVars, engineVars>>
    \/ HandleResponse /\ UNCHANGED <<sideVars, toolVars, normVars, engineVars>>

SpecDetect == InitDetect /\ [][NextDetect]_vars

-----------------------------------------------------------------------------
(* The redaction engine on its own: any document, any literal list *)

MaxLits == 2

LitPool == {sJo, sAl, sJoAl, sJ, sEmpty}

LiteralLists == BoundedSeq(LitPool, MaxLits)

\* a source that is itself named like an artifact
RedactedSrcPath == MkPath("docs", <<"cv", "_redacted">>)

RedactCall == \E path \in DOMAIN files, values \in LiteralLists : EngineOpen(path, values)

InitRedact ==
    /\ ToolIdle
    /\ EngineIdle
    /\ DetectIdle
    /\ \E texts \in Docs, path \in {SrcPath, RedactedSrcPath} :
          files = WriteFile(NoFiles, path, StoredDoc(texts))

NextRedact ==
    \/ RedactCall /\ UNCHANGED <<sideVars, toolVars, normVars, detVars>>
    \/ SearchValue /\ UNCHANGED <<sideVars, toolVars, normVars, detVars>>
    \/ CommitPage /\ UNCHANGED <<sideVars, toolVars, normVars, detVars>>
    \/ PageFault /\ UNCHANGED <<sideVars, toolVars, normVars, detVars>>
    \/ SaveToSourceDir /\ UNCHANGED <<sideVars, toolVars, normVars, detVars>>
    \/ SaveToTemp /\ UNCHANGED <<sideVars, toolVars, normVars, detVars>>
    \/ EngineReturn /\ UNCHANGED <<sideVars, toolVars, normVars, detVars>>

SpecRedact == InitRedact /\ [][NextRedact]_vars

-----------------------------------------------------------------------------
(* The overrides of redact_pdf_custom on their own (server.py:749-768): any  *)
(* detected values, any exclude list, any include list                       *)

MaxVals == 2
MaxOverride == 2

DetectedPool == {sJo, sjo, sAl}

ExcludePool == {sjo, sJO, sAl}

IncludePool == {sJo, sAl, sEmpty}

\* a validated CategoryMap with the given names and emails
MapOf(names, emails) ==
    [i \in 1..Len(required_keys) |->
        Entry(required_keys[i],
              CASE required_keys[i] = "names" -> names
                [] required_keys[i] = "emails" -> emails
                [] OTHER -> <<>>)]

InitOverride ==
    /\ tool = "custom"
    /\ pc = "custom_flatten"
    /\ pdf_path = SrcPath
    /\ pdf_base64 = "none"
    /\ return_base64 = FALSE
    /\ temp_file = NoPath
    /\ response = NoResponse
    /\ \E names \in BoundedSeq(DetectedPool, MaxVals), emails \in {<<>>, <<sAl>>} :
          sensitive_data = MapOf(names, emails)
    /\ sensitive_values = <<>>
    /\ values_in = <<>>
    /\ exclude_items \in BoundedSeq(ExcludePool, MaxOverride)
    /\ include_items \in BoundedSeq(IncludePool, MaxOverride)
    /\ masked_data = <<>>
    /\ llm_cache = <<>>
    /\ llm_instance = NoInstance
    /\ llm_calls = <<>>
    /\ extractor = ExtractorIdle
    /\ steps = <<>>
    /\ summary = NoSummary
    /\ trail = <<>>
    /\ EngineIdle
    /\ DetectIdle
    /\ files = InitialFiles

NextOverride ==
    \/ CustomFlatten
    \/ CustomExclude
    \/ CustomInclude

SpecOverride == InitOverride /\ [][NextOverride]_vars

-----------------------------------------------------------------------------
(* post_process_sensitive_data on its own: any mapping in category order,    *)
(* with empty and None values and a category that holds no list              *)

MaxFlat == 2

FlatPool == {sJo, sjo, sAl, sEmpty, PyNone}

FlattenInputs ==
    {[i \in 1..Len(required_keys) |->
        Entry(required_keys[i],
              CASE required_keys[i] = "names" -> names
                [] required_keys[i] = "emails" -> emails
                [] required_keys[i] = "phones" -> phones
                [] required_keys[i] = "other_pii" -> other
                [] OTHER -> <<>>)] :
        names \in BoundedSeq(FlatPool, MaxFlat), emails \in {<<>>, <<sAl>>},
        phones \in {<<>>, PyNone}, other \in BoundedSeq(FlatPool, MaxFlat)}

FlattenCall ==
    /\ pc = "idle"
    /\ \E m \in FlattenInputs :
          /\ sensitive_data' = m
          /\ sensitive_values' = post_process_sensitive_data(m)
    /\ pc' = "flattened"
    /\ UNCHANGED <<sideVars, tool, pdf_path, pdf_base64, return_base64, temp_file, response,
                   values_in, exclude_items, include_items, engineVars, detVars>>

\* an otherwise empty map with the given values under one category
AsMap(category, values) ==
    [i \in 1..Len(required_keys) |->
        Entry(required_keys[i], IF required_keys[i] = category THEN values ELSE <<>>)]

\* post_process_sensitive_data applied to its own output, held under one category
FlattenAgain ==
    /\ pc = "flattened"
    /\ values_in' = sensitive_values
    /\ \E category \in SeqToSet(required_keys) :
          sensitive_values' = post_process_sensitive_data(AsMap(category, sensitive_values))
    /\ pc' = "reflattened"
    /\ UNCHANGED <<sideVars, tool, pdf_path, pdf_base64, return_base64, temp_file, response,
                   sensitive_data, exclude_items, include_items, engineVars, detVars>>

InitFlatten == ToolIdle /\ EngineIdle /\ DetectIdle /\ files = NoFiles

NextFlatten ==
    \/ FlattenCall
    \/ FlattenAgain

SpecFlatten == InitFlatten /\ [][NextFlatten]_vars

-----------------------------------------------------------------------------
(* mask_sensitive_data on its own: any string over a small alphabet as the   *)
(* one name of a map, with or without an address beside it                   *)

MaxMaskLen == 5

MaskAlphabet == {"a", "b", "@", ".", "*"}

MaskCall ==
    /\ pc = "idle"
    /\ \E value \in BoundedSeq(MaskAlphabet, MaxMaskLen),
          emails \in {<<>>, << <<"a", "b", "a", "@", "b", ".", "a">> >>} :
          /\ sensitive_data' = MapOf(<<value>>, emails)
          /\ masked_data' = mask_sensitive_data(sensitive_data')
    /\ pc' = "masked"
    /\ UNCHANGED <<tool, pdf_path, pdf_base64, return_base64, temp_file, response,
                   sensitive_values, values_in, exclude_items, include_items,
                   llm_cache, llm_instance, llm_calls, extractor, steps, summary, trail, engineVars, detVars>>

InitMask == ToolIdle /\ EngineIdle /\ DetectIdle /\ files = NoFiles

NextMask == MaskCall

SpecMask == InitMask /\ [][NextMask]_vars

-----------------------------------------------------------------------------
(* get_llm on its own: calls with model names and endpoint addresses that    *)
(* may themselves contain a colon, as "gemma3:1b" and "http://..." do        *)

MaxCalls == 3

ModelPool == {DefaultModel, <<"a">>, <<"a", ":", "b">>}

UrlPool == {DefaultUrl, <<"c">>, <<"b", ":", "c">>}

GetLlm ==
    /\ Len(llm_calls) < MaxCalls
    /\ \E model \in ModelPool, base_url \in UrlPool : CallGetLlm(model, base_url)
    /\ UNCHANGED <<masked_data, extractor, steps, summary, trail, toolVars, normVars,
                   engineVars, detVars>>

InitCache == ToolIdle /\ EngineIdle /\ DetectIdle /\ files = NoFiles

NextCache == GetLlm

SpecCache == InitCache /\ [][NextCache]_vars

-----------------------------------------------------------------------------
(* get_pdf_text on its own: any document of a few pages, present or not *)

MaxPages == 3

PageTexts == {txtJoAlJo, txtJo, txtNone}

ExtractDocs == BoundedSeq(PageTexts, MaxPages) \ {<<>>}

ExtractCall ==
    /\ \E path \in {SrcPath, RedactedSrcPath}, page_chunks \in BOOLEAN :
          ExtractorOpen(path, page_chunks)
    /\ UNCHANGED <<masked_data, llm_cache, llm_instance, llm_calls, steps, summary, trail,
                   toolVars, normVars, engineVars, detVars>>

ExtractRun ==
    /\ \/ ExtractorReadPage
       \/ ExtractorReturn
    /\ UNCHANGED <<masked_data, llm_cache, llm_instance, llm_calls, steps, summary, trail,
                   toolVars, normVars, engineVars, detVars>>

InitExtract ==
    /\ ToolIdle
    /\ EngineIdle
    /\ DetectIdle
    /\ \E texts \in ExtractDocs : files = WriteFile(NoFiles, SrcPath, StoredDoc(texts))

NextExtract ==
    \/ ExtractCall
    \/ ExtractRun

SpecExtract == InitExtract /\ [][NextExtract]_vars

-----------------------------------------------------------------------------
(* Properties of the detector *)

Categories ==
    {"names", "emails", "phones", "addresses", "ids",
     "cards", "dobs", "medical", "financial", "other_pii"}

HasExactlyTheCategories(m) == DictKeys(m) = Categories /\ Len(m) = Cardinality(Categories)

IsEmptyCategoryMap(m) ==
    /\ HasExactlyTheCategories(m)
    /\ \A i \in 1..Len(m) : m[i].v = <<>>

RequestFailed(o) == o.kind \in {"timeout", "connection_error"} \/ o.status # 200 \/ ~o.json_ok

BodyIsObject(o) == ~RequestFailed(o) /\ o.body.t = "dict"

ResponseMissing(o) == BodyIsObject(o) /\ ~DictHas(o.body.entries, "response")

HasResponse(o) == BodyIsObject(o) /\ DictHas(o.body.entries, "response")

ResponseField(o) == DictGet(o.body.entries, "response", PNull)

\* a brace span json.loads accepts, as it is or after the formatting repair
Repairable(seg) == seg.k = "obj" /\ seg.defects \subseteq {"trailing_comma", "single_quotes"}

\* no part of the text is an object, not even after repair: the text is empty,
\* prose, a JSON array, or holds only spans that stay malformed
Unparseable(segs) == \A i \in 1..Len(segs) : ~Repairable(segs[i])

ResponseUnparseable(o) ==
    HasResponse(o) /\ ResponseField(o).t = "text" /\ Unparseable(ResponseField(o).segs)

ResponseNotString(o) == HasResponse(o) /\ ResponseField(o).t # "text"

ResponseNotStringNorObject(o) == HasResponse(o) /\ ResponseField(o).t \notin {"text", "dict"}

\* C1 as stated: get_sensitive_data never raises, and a timeout, a connection
\* failure, a non-200 status, a body that is not JSON, and a 'response' field
\* that is missing, not a string, or unparseable / not an object after every
\* repair attempt, all give the empty CategoryMap.
C1_AsStated ==
    /\ dpc # "raised"
    /\ (dpc = "returned" /\ (\/ RequestFailed(http)
                             \/ ResponseMissing(http)
                             \/ ResponseNotString(http)
                             \/ ResponseUnparseable(http)))
         => IsEmptyCategoryMap(det.val)

\* C1 amended: the same, for a 'response' field that is neither a string nor an
\* object; an object in the 'response' field is validated and returned.
C1_NeverRaisesEmptyOnFailure ==
    /\ dpc # "raised"
    /\ (dpc = "returned" /\ (\/ RequestFailed(http)
                             \/ ResponseMissing(http)
                             \/ ResponseNotStringNorObject(http)
                             \/ ResponseUnparseable(http)))
         => IsEmptyCategoryMap(det.val)

C1_Witness ==
    /\ dpc = "returned"
    /\ ResponseNotStringNorObject(http)
    /\ IsEmptyCategoryMap(det.val)

\* C2: whatever object reaches _validate_structure, and so whatever
\* get_sensitive_data returns, has exactly the ten category keys.
C2_KeySetIsTheTenCategories ==
    dpc = "returned" => HasExactlyTheCategories(det.val)

C2_Witness ==
    /\ dpc = "returned"
    /\ HasResponse(http)
    /\ ResponseField(http).t = "dict"
    /\ DictHas(ResponseField(http).entries, "bogus")
    /\ ~DictHas(ResponseField(http).entries, "names")
    /\ HasExactlyTheCategories(det.val)

-----------------------------------------------------------------------------
(* Properties of the redaction engine *)

RECURSIVE SumTo(_, _)
SumTo(f, n) == IF n = 0 THEN 0 ELSE f[n] + SumTo(f, n - 1)

\* the pages of the source document, which stays as it was on disk
SourcePages == files[r_args.pdf_path]

\* what the page search returns for each literal of at least 2 characters on
\* the page as the source has it, summed over the list
ExpectedPageCount(p) ==
    LET values == r_args.sensitive_values
        hits == [k \in 1..Len(values) |->
                    IF Len(values[k]) >= 2 THEN Len(search_for(SourcePages[p], values[k]))
                    ELSE 0]
    IN  SumTo(hits, Len(values))

\* C6: once apply_redactions has returned, redacted_pages has one entry per
\* page in page order, each number_of_redactions is the sum of the occurrences
\* found for the literals of 2 or more characters, shorter literals were never
\* searched, and total_redactions is the sum of the per-page counts.
C6_SummaryCountsOccurrences ==
    rpc = "returned" =>
        LET pages == redaction_summary.redacted_pages
            counts == [p \in 1..Len(pages) |-> pages[p].number_of_redactions]
        IN  /\ redaction_summary.total_pages = Len(SourcePages)
            /\ Len(pages) = Len(SourcePages)
            /\ \A p \in 1..Len(pages) :
                  /\ pages[p].page = p
                  /\ pages[p].number_of_redactions = ExpectedPageCount(p)
            /\ redaction_summary.total_redactions = SumTo(counts, Len(pages))
            /\ \A e \in 1..Len(search_log) :
                  search_log[e].op = "search" => Len(search_log[e].needle) >= 2

\* a two-page document and a list with a one-character literal and a longer one
C6_Witness ==
    /\ rpc = "returned"
    /\ InSeq(sJ, r_args.sensitive_values)
    /\ InSeq(sJoAl, r_args.sensitive_values)
    /\ redaction_summary.total_redactions = 1
    /\ Len(redaction_summary.redacted_pages) = 2

\* C7: on every page the highlights put on the preview copy are the regions
\* registered for removal on the removal copy, and after the run the saved
\* preview has as many highlights per page as regions were registered, which
\* is that page's number_of_redactions.
C7_HighlightsMatchRedactions ==
    /\ rpc \in {"loop", "fallback", "close"} =>
          \A p \in 1..Len(doc_highlighted) : doc_highlighted[p].highlights = registered[p]
    /\ rpc = "returned" =>
          LET saved == files[out_paths.highlighted] IN
          /\ Len(saved) = Len(registered)
          /\ \A p \in 1..Len(saved) :
                /\ saved[p].highlights = registered[p]
                /\ Len(saved[p].highlights) =
                      redaction_summary.redacted_pages[p].number_of_redactions

C7_Witness ==
    /\ rpc = "returned"
    /\ Len(files[out_paths.highlighted][1].highlights) = 3
    /\ Len(registered[1]) = 3

-----------------------------------------------------------------------------
(* Properties of the tool operations *)

\* the inference request of this invocation failed, in one of the ways the
\* detector answers with the empty CategoryMap
DetectionFailed ==
    /\ dpc = "returned"
    /\ \/ RequestFailed(http)
       \/ ResponseMissing(http)
       \/ ResponseNotStringNorObject(http)
       \/ ResponseUnparseable(http)

ArtifactPaths == DOMAIN files \ {SrcPath, TmpInput}

\* C3: a tool whose detection failed does not answer with the status
\* "no_sensitive_data" of a detection that succeeded and found nothing; it
\* answers with a detection failure.
C3_FailureIsNotReportedAsNoData ==
    (pc = "done" /\ DetectionFailed) =>
        /\ response.status # "no_sensitive_data"
        /\ response.error = "llm_failed"

\* C4: after a failed detection apply_redactions is never entered, no
\* total_redactions is reported and no artifact is written.
C4_NoRedactionAfterFailedDetection ==
    DetectionFailed =>
        /\ rpc = "idle"
        /\ response.total_redactions = -1
        /\ ArtifactPaths = {}

\* the literal list of the invocation, flattened and with the overrides applied
EffectiveList ==
    IF tool = "custom"
    THEN ApplyInclude(ApplyExclude(post_process_sensitive_data(sensitive_data),
                                   exclude_items), include_items)
    ELSE post_process_sensitive_data(sensitive_data)

\* C5: in redact_pdf and redact_pdf_custom, when the literal list is empty
\* after flattening and overrides, apply_redactions is never entered, no
\* artifact is written, the source document stays as it was and the tool
\* answers "no_sensitive_data".
C5_EmptyListMeansNothingIsWritten ==
    (tool \in {"redact", "custom"} /\ dpc = "returned" /\ EffectiveList = <<>>) =>
        /\ rpc = "idle"
        /\ ArtifactPaths = {}
        /\ files[SrcPath] = InitialFiles[SrcPath]
        /\ pc = "done" => response = StatusResponse("no_sensitive_data", -1)

\* values were detected and the exclude list removed every one of them
C5_Witness ==
    /\ pc = "done"
    /\ tool = "custom"
    /\ ~NothingFound(sensitive_data)
    /\ exclude_items # <<>>
    /\ sensitive_values = <<>>
    /\ response.status = "no_sensitive_data"
    /\ rpc = "idle"

-----------------------------------------------------------------------------
(* Properties of the overrides *)

EqIgnoreCase(a, b) ==
    /\ Len(a) = Len(b)
    /\ \A i \in 1..Len(a) : LowerChar(a[i]) = LowerChar(b[i])

MatchesAnExclude(v) == \E j \in 1..Len(exclude_items) : EqIgnoreCase(v, exclude_items[j])

NoDuplicates(seq) == \A i, j \in 1..Len(seq) : i # j => seq[i] # seq[j]

\* C8: after the exclusion step no literal equals an exclude entry when both
\* are lower-cased, and the literals that match no exclude entry are all kept,
\* in their order.
C8_ExclusionIgnoresCase ==
    pc = "custom_include" =>
        /\ \A i \in 1..Len(sensitive_values) : ~MatchesAnExclude(sensitive_values[i])
        /\ sensitive_values = SelectSeq(values_in, LAMBDA v : ~MatchesAnExclude(v))

\* "JO" removes both "Jo" and "jo" and keeps "Al"
C8_Witness ==
    /\ pc = "custom_include"
    /\ values_in = <<sJo, sjo, sAl>>
    /\ exclude_items = <<sJO>>
    /\ sensitive_values = <<sAl>>

Count(x, seq) == Cardinality({i \in 1..Len(seq) : seq[i] = x})

\* C9: after the inclusion step the list is the list before it followed by the
\* non-empty include entries that were not present, each once; no entry occurs
\* twice, and applying the same include list again changes nothing.
C9_InclusionAppendsOnce ==
    pc = "custom_check" =>
        LET added == SubSeq(sensitive_values, Len(values_in) + 1, Len(sensitive_values)) IN
        /\ Len(values_in) <= Len(sensitive_values)
        /\ SubSeq(sensitive_values, 1, Len(values_in)) = values_in
        /\ \A k \in 1..Len(include_items) :
              LET y == include_items[k] IN
              /\ (y # <<>> /\ ~InSeq(y, values_in)) =>
                    Count(y, added) = 1 /\ Count(y, sensitive_values) = 1
              /\ (y = <<>> \/ InSeq(y, values_in)) => ~InSeq(y, added)
        /\ \A k \in 1..Len(added) : InSeq(added[k], include_items)
        /\ NoDuplicates(sensitive_values)
        /\ ApplyInclude(sensitive_values, include_items) = sensitive_values

\* the same entry twice in the include list is appended once
C9_Witness ==
    /\ pc = "custom_check"
    /\ include_items = <<sAl, sAl>>
    /\ values_in = <<sJo, sjo>>
    /\ sensitive_values = <<sJo, sjo, sAl>>

-----------------------------------------------------------------------------
(* Properties of the flattening *)

CategoryOrder ==
    <<"names", "emails", "phones", "addresses", "ids",
      "cards", "dobs", "medical", "financial", "other_pii">>

\* the values of the first n categories of the fixed order, one category after
\* the other, each in its own order
RECURSIVE ValuesInCategoryOrder(_, _)
ValuesInCategoryOrder(m, n) ==
    IF n = 0 THEN <<>>
    ELSE LET values == DictGet(m, CategoryOrder[n], <<>>) IN
         ValuesInCategoryOrder(m, n - 1) \o (IF values = PyNone THEN <<>> ELSE values)

FirstIndex(x, seq) == Min({i \in 1..Len(seq) : seq[i] = x})

\* C10: the flattened list has no two equal entries and no empty or None
\* entry, holds exactly the distinct non-empty values of the map, and orders
\* them by first appearance in the fixed category order.
C10_FlattenIsDistinctAndOrdered ==
    pc = "flattened" =>
        LET all == ValuesInCategoryOrder(sensitive_data, Len(CategoryOrder))
            out == sensitive_values
        IN  /\ NoDuplicates(out)
            /\ \A i \in 1..Len(out) : out[i] # <<>> /\ out[i] # PyNone
            /\ SeqToSet(out) = {x \in SeqToSet(all) : x # <<>> /\ x # PyNone}
            /\ \A i, j \in 1..Len(out) :
                  i < j => FirstIndex(out[i], all) < FirstIndex(out[j], all)

\* a value repeated across categories, with an empty and a None value between
C10_Witness ==
    /\ pc = "flattened"
    /\ DictGet(sensitive_data, "names", <<>>) = <<sJo, sEmpty>>
    /\ DictGet(sensitive_data, "emails", <<>>) = <<sAl>>
    /\ DictGet(sensitive_data, "other_pii", <<>>) = <<PyNone, sJo>>
    /\ sensitive_values = <<sJo, sAl>>

\* C11: flattening the output of a flattening, held as the values of a single
\* category of an otherwise empty map, gives that output again, in the same
\* order.
C11_FlattenIsIdempotent ==
    pc = "reflattened" => sensitive_values = values_in

\* the first flattening dropped a repeated and an empty value and kept two
C11_Witness ==
    /\ pc = "reflattened"
    /\ DictGet(sensitive_data, "names", <<>>) = <<sJo, sEmpty>>
    /\ DictGet(sensitive_data, "other_pii", <<>>) = <<sAl, sJo>>
    /\ values_in = <<sJo, sAl>>
    /\ sensitive_values = <<sJo, sAl>>

-----------------------------------------------------------------------------
(* Properties of the masking *)

\* the value the masked name stands for, and the masked name
NameValue == DictGet(sensitive_data, "names", <<>>)[1]

MaskedName == DictGet(masked_data, "names", <<>>)[1]

IsAllStars(str) == \A i \in 1..Len(str) : str[i] = "*"

\* C12: no entry of the masked mapping equals the (non-empty) value it stands
\* for.
C12_MaskedDiffersFromValue ==
    pc = "masked" =>
        \A i \in 1..Len(sensitive_data) : \A j \in 1..Len(sensitive_data[i].v) :
            sensitive_data[i].v[j] # <<>> => masked_data[i].v[j] # sensitive_data[i].v[j]

\* C13: a value of at most 4 characters is masked to asterisks only, as many
\* as the value has characters.
C13_ShortValuesBecomeAsterisks ==
    (pc = "masked" /\ Len(NameValue) <= 4) =>
        /\ Len(MaskedName) = Len(NameValue)
        /\ IsAllStars(MaskedName)

\* the first two and the last two characters kept, the length kept
KeepsBothEnds(value, masked) ==
    /\ Len(masked) = Len(value)
    /\ SubSeq(masked, 1, 2) = SubSeq(value, 1, 2)
    /\ SubSeq(masked, Len(masked) - 1, Len(masked)) = SubSeq(value, Len(value) - 1, Len(value))
    /\ Len(SubSeq(masked, 3, Len(masked) - 2)) = Len(value) - 4

-----------------------------------------------------------------------------
(* Properties of the order of the tool's steps *)

Before(first, i) == \E j \in 1..(i - 1) : trail[j] = first

NothingDoneForTheDocument ==
    /\ ~InSeq("get_pdf_text", trail)
    /\ ~InSeq("get_sensitive_data", trail)
    /\ ~InSeq("apply_redactions", trail)
    /\ dpc = "idle"
    /\ rpc = "idle"
    /\ ArtifactPaths = {}

\* C15: the text is extracted and the detector is called only after the
\* connectivity check returned true and the input was found to be an existing
\* file; a failed connectivity check ends the tool with a connectivity error,
\* a missing input or file with an input error, in both cases with no text
\* extracted, no detector call and no artifact.
C15_DetectionIsGated ==
    tool \in {"analyze", "redact", "custom"} =>
        /\ \A i \in 1..Len(trail) :
              trail[i] \in {"get_pdf_text", "get_sensitive_data"} =>
                  Before("check_connection:True", i) /\ Before("input:exists", i)
        /\ InSeq("check_connection:False", trail) =>
              /\ pc \in {"cleanup", "done"}
              /\ response = ErrorResponse("connection")
              /\ NothingDoneForTheDocument
        /\ (InSeq("input:none", trail) \/ InSeq("input:missing", trail)) =>
              /\ pc \in {"cleanup", "done"}
              /\ response.error \in {"no_input", "not_found"}
              /\ NothingDoneForTheDocument

\* redact_pdf on a path that does not exist, the detector being reachable
C15_Witness ==
    /\ pc = "done"
    /\ tool = "redact"
    /\ trail = <<"check_connection:True", "input:missing">>
    /\ response = ErrorResponse("not_found")

\* C16: no tool lets a failure of one of its steps through to the host: once
\* a step has raised, the tool has returned a response with an "error" field.
C16_FailuresBecomeErrorResponses ==
    /\ pc # "propagated"
    /\ InSeq("raised", trail) =>
          /\ pc \in {"cleanup", "done"}
          /\ response.error # "none"
          /\ response.status = "none"

\* redact_pdf_custom, both saves of apply_redactions having failed
C16_Witness ==
    /\ pc = "done"
    /\ tool = "custom"
    /\ rpc = "raised"
    /\ trail[Len(trail)] = "raised"
    /\ trail[Len(trail) - 1] = "apply_redactions"
    /\ response = ErrorResponse("exception")

-----------------------------------------------------------------------------
(* Properties of the saves of the redaction engine *)

\* how many entries of the history record the given save outcome
NumOf(op) == Cardinality({e \in 1..Len(search_log) : search_log[e].op = op})

SourceSaves == NumOf("save_source:ok") + NumOf("save_source:failed")

TempSaves == NumOf("save_temp:ok") + NumOf("save_temp:failed")

\* the name an artifact has in a directory
Artifact(parent, stem) == [parent |-> parent, stem |-> stem, suffix |-> ".pdf"]

\* C17: when the save next to the source fails, the save to a temporary
\* location is attempted exactly once; if it succeeds the returned paths are
\* the temporary ones, and if it fails the failure is raised to the caller.
C17_FallbackIsTriedOnce ==
    /\ SourceSaves <= 1
    /\ TempSaves <= 1
    /\ TempSaves = 1 => NumOf("save_source:failed") = 1
    /\ NumOf("save_source:failed") = 1 => (rpc = "fallback" \/ TempSaves = 1)
    /\ rpc = "fallback" => TempSaves = 0
    /\ NumOf("save_temp:failed") = 1 => rpc = "raised"
    /\ NumOf("save_temp:ok") = 1 =>
          /\ rpc \in {"close", "returned"}
          /\ out_paths.redacted = Artifact("tmp", <<TmpName, "_redacted">>)
          /\ out_paths.highlighted = Artifact("tmp", <<TmpName, "_highlighted">>)
          /\ {out_paths.redacted, out_paths.highlighted} \subseteq DOMAIN files

\* the highlighted document could not be saved next to the source, the
\* fallback succeeded
C17_Witness ==
    /\ rpc = "returned"
    /\ NumOf("save_source:failed") = 1
    /\ NumOf("save_temp:ok") = 1
    /\ Artifact(r_args.pdf_path.parent, Append(r_args.pdf_path.stem, "_redacted")) \in DOMAIN files
    /\ out_paths.redacted.parent = "tmp"

\* C18: on every exit of apply_redactions, by return or by exception, both
\* documents it opened are closed.
C18_DocumentsClosedOnEveryExit ==
    rpc \in {"returned", "raised"} =>
        doc_redacted = Closed /\ doc_highlighted = Closed

\* C19: with a writable source directory apply_redactions writes exactly
\* <parent>/<stem>_redacted.pdf and <parent>/<stem>_highlighted.pdf; no output
\* path equals the source path, and no step writes to the source file.
C19_ArtifactNamesAndSourceUntouched ==
    /\ [](rpc # "idle" =>
            LET src == r_args.pdf_path IN
            /\ out_paths.redacted # src
            /\ out_paths.highlighted # src
            /\ NumOf("save_source:ok") = 1 =>
                  /\ out_paths.redacted = Artifact(src.parent, src.stem \o <<"_redacted">>)
                  /\ out_paths.highlighted = Artifact(src.parent, src.stem \o <<"_highlighted">>)
                  /\ DOMAIN files \ {src} = {out_paths.redacted, out_paths.highlighted})
    /\ [][\A p \in DOMAIN files :
            p = r_args'.pdf_path => p \in DOMAIN files' /\ files'[p] = files[p]]_vars

\* a source that is itself named cv_redacted.pdf, saved next to the source
C19_Witness ==
    /\ rpc = "returned"
    /\ r_args.pdf_path = RedactedSrcPath
    /\ NumOf("save_source:ok") = 1
    /\ DOMAIN files = {RedactedSrcPath,
                       Artifact("docs", <<"cv", "_redacted", "_redacted">>),
                       Artifact("docs", <<"cv", "_redacted", "_highlighted">>)}


-----------------------------------------------------------------------------
(* Properties of the detector client cache *)

SamePair(a, b) == a.model = b.model /\ a.base_url = b.base_url

\* C20: every get_llm call returns an instance whose model and base_url are
\* the arguments of the call; calls with the same (model, base_url) pair
\* return the same instance and calls with different pairs never do.
C20_CacheKeepsPairsApart ==
    \A i, j \in 1..Len(llm_calls) :
        /\ llm_calls[i].returned.model = llm_calls[i].model
        /\ llm_calls[i].returned.base_url = llm_calls[i].base_url
        /\ SamePair(llm_calls[i], llm_calls[j])
              <=> llm_calls[i].returned.id = llm_calls[j].returned.id

-----------------------------------------------------------------------------
(* Properties of the response parsing *)

YieldsObject(r) == r.exc = "none" /\ r.val.t = "dict"

NoParse == Raise("JSONDecodeError")

\* the three strategies, each taken on its own
WholeResponse(segs) == JsonLoads(Strip(segs))

FencedObject(segs) ==
    IF CodeBlockMatch(segs) = <<>> THEN NoParse
    ELSE JsonLoads(_fix_json_formatting(CodeBlockMatch(segs)))

FirstBraceSpan(segs) ==
    IF BraceMatch(segs) = <<>> THEN NoParse
    ELSE JsonLoads(_fix_json_formatting(BraceMatch(segs)))

\* the validated object of the earliest strategy that yields one
FirstSuccess(segs) ==
    IF YieldsObject(WholeResponse(segs))
    THEN _validate_structure(WholeResponse(segs).val.entries)
    ELSE IF YieldsObject(FencedObject(segs))
    THEN _validate_structure(FencedObject(segs).val.entries)
    ELSE IF YieldsObject(FirstBraceSpan(segs))
    THEN _validate_structure(FirstBraceSpan(segs).val.entries)
    ELSE _empty_structure

TextAnswered ==
    /\ dpc = "returned"
    /\ HasResponse(http)
    /\ ResponseField(http).t = "text"

\* C21: for a textual response the detector returns the validated object of
\* the earliest of the three strategies (whole response, fenced block, first
\* brace span) that yields an object, and the empty CategoryMap only when all
\* three fail.
C21_FirstSuccessfulStrategyWins ==
    TextAnswered => det.val = FirstSuccess(ResponseField(http).segs)

-----------------------------------------------------------------------------
(* Properties of the validation *)

\* the object that reached _validate_structure, when one did
ObjectValidated ==
    /\ dpc = "returned"
    /\ HasResponse(http)
    /\ ResponseField(http).t = "dict"

IsNonEmptyStringOrNumber(item) ==
    \/ item.t = "str" /\ item.s # <<>>
    \/ item.t = "int"

StringFormsOf(items) ==
    LET kept == SelectSeq(items, IsNonEmptyStringOrNumber)
    IN  [i \in 1..Len(kept) |-> PyStr(kept[i])]

\* C22: a sequence value is validated to the string forms, in order, of
\* exactly its entries that are non-empty strings or numbers, so every entry
\* of a validated sequence is a non-empty string.
C22_SequencesKeepStringsAndNumbers ==
    ObjectValidated =>
        \A i \in 1..Len(required_keys) :
            LET value == DictGet(ResponseField(http).entries, required_keys[i], PList(<<>>)) IN
            value.t = "list" =>
                /\ det.val[i].v = StringFormsOf(value.items)
                /\ \A j \in 1..Len(det.val[i].v) : det.val[i].v[j] # <<>>

\* C23: a value that is not a sequence is wrapped into a one-element sequence
\* of its string form when it is a non-empty string or a number, and replaced
\* by the empty sequence otherwise.
C23_SingleValuesAreWrapped ==
    ObjectValidated =>
        \A i \in 1..Len(required_keys) :
            LET value == DictGet(ResponseField(http).entries, required_keys[i], PList(<<>>)) IN
            value.t # "list" =>
                det.val[i].v = IF IsNonEmptyStringOrNumber(value) THEN <<PyStr(value)>> ELSE <<>>

-----------------------------------------------------------------------------
(* Properties of the order of searches and commits *)

IsCommit(e, p) == search_log[e].op = "commit" /\ search_log[e].page = p

IsSearch(e, p) == search_log[e].op = "search" /\ search_log[e].page = p

\* the literals searched on page p, in the order of the searches
SearchedOn(p) ==
    LET on_page == SelectSeq(search_log, LAMBDA entry : entry.op = "search" /\ entry.page = p)
    IN  [k \in 1..Len(on_page) |-> on_page[k].needle]

Searchable(v) == ~SkipValue(v)

\* C24: a page is committed exactly once, after the searches for all literals
\* on it and before any search on the next page; no search on a page follows
\* its commit, so until the commit the page has the content of the source and
\* every literal finds the occurrences the source page has, overlapping ones
\* included.
C24_RegisterThenCommit ==
    rpc # "idle" =>
        /\ \A p \in 1..Len(SourcePages) :
              /\ Cardinality({e \in 1..Len(search_log) : IsCommit(e, p)}) =
                    (IF p < page_num THEN 1 ELSE 0)
              /\ \A c, e \in 1..Len(search_log) :
                    /\ IsCommit(c, p) /\ IsSearch(e, p) => e < c
                    /\ IsCommit(c, p) /\ IsSearch(e, p + 1) => c < e
                    /\ IsCommit(c, p) /\ IsCommit(e, p + 1) => c < e
              /\ p < page_num =>
                    SearchedOn(p) = SelectSeq(r_args.sensitive_values, Searchable)
              /\ p > 1 /\ (\E e \in 1..Len(search_log) : IsSearch(e, p)) =>
                    \E c \in 1..Len(search_log) : IsCommit(c, p - 1)
        /\ rpc = "loop" /\ page_num <= Len(SourcePages) =>
              /\ doc_redacted[page_num].text = SourcePages[page_num].text
              /\ LET done == SearchedOn(page_num)
                     hits == [k \in 1..Len(done) |->
                                Len(search_for(SourcePages[page_num], done[k]))]
                 IN  page_stats = SumTo(hits, Len(done))
        /\ \A p \in 1..Len(redaction_summary.redacted_pages) :
              redaction_summary.redacted_pages[p].number_of_redactions = ExpectedPageCount(p)

\* "Jo" is registered before "JoAl" on a page reading "JoAl Jo": both are found
C24_Witness ==
    /\ rpc = "returned"
    /\ r_args.sensitive_values = <<sJo, sJoAl>>
    /\ SourcePages[1].text = txtJoAlJo
    /\ redaction_summary.redacted_pages[1].number_of_redactions = 3
    /\ SearchedOn(1) = <<sJo, sJoAl>>

-----------------------------------------------------------------------------
(* Properties of the text extractor *)

\* C25: get_pdf_text leaves no document open: a missing source fails with
\* FileNotFoundError before anything is opened, and when a page cannot be read
\* the document is closed before the wrapped error reaches the caller.
C25_ExtractorReleasesTheDocument ==
    extractor.xpc \in {"returned", "raised"} =>
        /\ extractor.doc # "open"
        /\ ~(extractor.file_path \in DOMAIN files) =>
              extractor.exc = "FileNotFoundError" /\ extractor.doc = "none"

-----------------------------------------------------------------------------
(* Properties of the masking of addresses *)

\* the part after the first '@'
AfterFirstAt(value) ==
    LET at == CHOOSE i \in 1..Len(value) :
                  value[i] = "@" /\ \A j \in 1..(i - 1) : value[j] # "@"
    IN  SubSeq(value, at + 1, Len(value))

\* the generic rule, on a whole string
GenericRule(value) ==
    IF Len(value) <= 4 THEN Stars(Len(value))
    ELSE SubSeq(value, 1, 2) \o Stars(Len(value) - 4)
            \o SubSeq(value, Len(value) - 1, Len(value))

\* C26: a value of 3 or more characters with both '@' and '.' whose part after
\* the first '@' holds no '.' is masked by the generic rule on the whole value.
C26_UnsplittableDomainFallsBack ==
    (/\ pc = "masked"
     /\ Len(NameValue) >= 3
     /\ InSeq("@", NameValue)
     /\ InSeq(".", NameValue)
     /\ ~InSeq(".", AfterFirstAt(NameValue))) =>
        MaskedName = GenericRule(NameValue)

-----------------------------------------------------------------------------
(* Properties of the order of the overrides *)

\* C27: the exclusion is applied to the detected literals first and the
\* inclusion afterwards, unfiltered: every non-empty include entry is in the
\* final list, also when it equals an exclude entry up to case.
C27_IncludeWinsOverExclude ==
    pc = "custom_check" =>
        /\ \A i \in 1..Len(values_in) : ~MatchesAnExclude(values_in[i])
        /\ SubSeq(sensitive_values, 1, Len(values_in)) = values_in
        /\ \A k \in 1..Len(include_items) :
              include_items[k] # <<>> => InSeq(include_items[k], sensitive_values)

\* "Jo" was detected, removed by the exclude entry "jo" and put back by the
\* include entry "Jo"
C27_Witness ==
    /\ pc = "custom_check"
    /\ exclude_items = <<sjo>>
    /\ include_items = <<sJo>>
    /\ InSeq(sJo, DictGet(sensitive_data, "names", <<>>))
    /\ ~InSeq(sJo, values_in)
    /\ InSeq(sJo, sensitive_values)

-----------------------------------------------------------------------------
(* Properties of the report of redact_pdf_custom *)

CustomSucceeded ==
    /\ tool = "custom"
    /\ pc = "done"
    /\ response.status = "success"

MaskedValues == UNION {SeqToSet(masked_data[i].v) : i \in 1..Len(masked_data)}

\* C28: the masked_data of redact_pdf_custom is the masked form of the
\* detector's CategoryMap whatever the exclude and include lists are: excluded
\* values are in it (masked), included values are not.
C28_ReportIgnoresOverrides ==
    CustomSucceeded =>
        /\ masked_data = mask_sensitive_data(det.val)
        /\ \A i \in 1..Len(det.val) :
              Len(masked_data[i].v) = Len(det.val[i].v)

\* "Jo" and "JoAl" were detected and excluded, "Al" was included and is the
\* only literal redacted; the report shows the two detected values
C28_Witness ==
    /\ CustomSucceeded
    /\ exclude_items = <<sJO, sJoAl>>
    /\ include_items = <<sAl>>
    /\ sensitive_values = <<sAl>>
    /\ DictGet(det.val, "emails", <<>>) = <<sJoAl>>
    /\ DictGet(masked_data, "emails", <<>>) = <<Stars(4)>>
    /\ sAl \notin MaskedValues
    /\ Stars(2) \notin MaskedValues

-----------------------------------------------------------------------------
(* Properties of the progress trace and of the temporary input *)

\* a tool has returned a response that holds a progress summary
ReturnedWithProgress ==
    /\ pc \in {"cleanup", "done"}
    /\ summary # NoSummary

\* C29: in the response a tool returns, no step of the trace is still
\* "in_progress", and steps_completed and steps_failed are the numbers of
\* steps of the returned trace with status "completed" and "failed".
C29_TraceIsConsistent ==
    ReturnedWithProgress =>
        /\ \A i \in 1..Len(steps) : steps[i].status # "in_progress"
        /\ summary.steps_completed = WithStatus(steps, "completed")
        /\ summary.steps_failed = WithStatus(steps, "failed")

\* C30: when analyze_pdf_sensitive_data or redact_pdf was called with
\* pdf_base64 and has returned, no temporary file made for the decoded input
\* is left.
C30_TemporaryInputIsDeleted ==
    (/\ tool \in {"analyze", "redact"}
     /\ pdf_base64 # "none"
     /\ pc = "done") =>
        TmpInput \notin DOMAIN files

====
